---- MODULE Spec2Model ----
(***************************************************************************)
(* ground-texture-sim: the DataSynchronizer (capture flags, stored         *)
(* samples, getMessages, messageCallback, registerTopic), the              *)
(* TrajectoryFollower (captureTrajectory, sendPose) and the DataWriter it  *)
(* hands its data to.                                                      *)
(*                                                                         *)
(* Two threads run: the caller's thread (the test client of the            *)
(* synchronizer, or the follower's captureTrajectory) and the transport's  *)
(* reception thread, which runs messageCallback.  Every statement that     *)
(* touches the state both threads share is one step.                       *)
(*                                                                         *)
(* Lengths are in units of 1e-6 m and angles in units of 1e-6 rad, so that *)
(* the tolerance of the convergence check is the integer Eps.              *)
(***************************************************************************)
EXTENDS Integers, Sequences, FiniteSets, TLC

\* ------------------------------------------------------------------ bounds
\* messages the feeds publish in one run
MaxDeliveries == 2
\* getMessages() calls made in one run
MaxCalls == 2
\* registerTopic() calls the test client makes
MaxRegs == 2
\* waypoints of a trajectory
MaxWaypoints == 2
\* DataWriter instances constructed in one run of the writer's client
MaxWriters == 2
\* write calls made in one run of the writer's client
MaxWrites == 2
\* setCameraHeight calls made after the construction
MaxSets == 2
\* lines of a trajectory file
MaxLines == 2
\* registerKeypress calls made on one KeyboardController
MaxPresses == 2
\* milliseconds the clock advances while the controller is used
MaxElapsed == 600
\* the yaws of the transform_math tests reach from -MaxTurns*pi to MaxTurns*pi
MaxTurns == 3
\* messages the feeds publish while main follows a trajectory file
MaxMainDeliveries == 4

VARIABLES
    \* DataSynchronizer
    capture_flags,      \* std::map<string,bool>: topic -> "record the next message"
    synched_messages,   \* std::map<string,shared_ptr<Message>>: topic -> stored sample
    subscribed,         \* topics the transport node delivers to messageCallback
    \* the getMessages() frame
    gm_pc,              \* "idle" | "arm" | "wait" | "copy" | "returned"
    gm_it,              \* position of the arming iterator in the key order
    still_pending,      \* the local of the wait loop
    messages,           \* the map getMessages() returned (the caller's `messages`)
    \* the messageCallback() frame on the reception thread
    cb_topic,           \* info.Topic() of the running callback, or NoTopic
    cb_msg,             \* its message
    cb_todo,            \* its stores not yet visible: subset of {"sample", "flag"}
    \* registerTopic() frame of the test client
    reg_pc,             \* "idle" | "insert"
    reg_name,           \* topic_name of the last call
    reg_sub_ok,         \* what node.Subscribe returned in the last call
    reg_result,         \* what the last call returned
    regs,               \* calls made
    regs_done,          \* calls returned
    \* bookkeeping of the run
    delivered,          \* messages handed to messageCallback so far
    armedAt,            \* topic -> value of delivered when this call armed it
    calls,              \* getMessages() calls made
    aborted,            \* the process was terminated (uncaught exception, segfault)
    \* TrajectoryFollower::captureTrajectory
    pc,                 \* "loop" | "send" | "poll" | "in_get" | "write" | "done" | "crashed" | "off"
    trajectory,         \* the argument: a sequence of Pose2D
    idx,                \* position of `pose` in trajectory (1-based)
    wrapped_pose,       \* Pose2D wrapped_pose
    extracted_pose,     \* ignition::msgs::Pose extracted_pose
    pose_updated,       \* bool pose_updated
    camera_info_msg,    \* the three raw pointers: the message each points to
    image_msg,
    pose_msg,
    result,             \* what captureTrajectory returned: "none" | "true" | "false"
    requests,           \* the requests sent to the move service, in order
    replies,            \* executed / result / response.data of each request
    acks,               \* what sendPose returned for each request
    writes,             \* the arguments of each writeData call, in order
    \* DataWriter
    index,              \* unsigned int index
    files,              \* the files of the data folder: name -> content
    \* the simulator
    sim_pose,           \* pose of the camera model
    sim_cmd,            \* accepted set_pose command not applied yet, or NoCmd
    \* the file system and the DataWriter instances that write to it
    dirs,               \* the directories that exist
    disk,               \* the files that exist: <<folder, index, kind>> -> content
    data_folder,        \* std::string data_folder of the live DataWriter
    image_count,        \* int image_count of the live DataWriter (follow_trajectory.cpp)
    w_kind,             \* the live instance: "none" | "writer" | "legacy"
    w_inst,             \* instances constructed so far
    w_calls,            \* write calls the live instance has received
    w_log,              \* one record per write call, in order
    w_thrown,           \* what the last setDataFolder threw: "none" | "filesystem_error"
    \* the TrajectoryFollower constructor and setCameraHeight, called by main / a test
    ctor_pc,            \* "off" | "height" | "folder" | "topics" | "store" | "done" | "thrown"
    ctor_params,        \* the Parameters given
    ctor_thrown,        \* the exception that left the constructor, or "none"
    ctor_steps,         \* how often each step of the constructor ran
    follower_height,    \* float camera_height of the follower
    main_pc,            \* "parse" | "construct" | "capture" | "caught" | "return_0" | "return_-1"
    set_calls,          \* setCameraHeight calls made after construction
    set_arg,            \* argument of the last one
    set_thrown,         \* what it threw: "none" | "invalid_argument"
    \* parseFile
    file_opens,         \* whether the trajectory file can be opened
    file_lines,         \* its lines
    parse_pc,           \* "off" | "open" | "lines" | "returned" | "terminated"
    parse_i,            \* lines read so far
    parse_trajectory,   \* the local `trajectory`
    parse_out,          \* what parseFile returned
    parse_cout,         \* the lines echoed in error messages
    \* transform_math, called by a test
    m_pc,               \* "off" | "input" | "wrapped" | "wrapped_twice" | "quaternion" | "rpy" | "pose"
    m_pose2d,           \* the Pose2D the test starts from; its yaw is the angle
    m_msg,              \* whether the test uses the message variants
    m_wrapped,          \* wrapAngle(yaw)
    m_twice,            \* wrapAngle(wrapAngle(yaw))
    m_quat,             \* quaternionFromYaw(yaw) / quaternionMsgFromYaw(yaw)
    m_rpy,              \* RPYFromQuaternion(m_quat) / RPYFromQuaternionMsg(m_quat)
    m_pose,             \* poseMsgFromPose2D(m_pose2d)
    \* KeyboardController
    k_now,              \* std::chrono::system_clock::now(), in ms since the epoch
    k_press_time,       \* the six atomic *_press_time members, by key
    k_pressed,          \* the keys registerKeypress was called with, in order
    k_data,             \* msg.data() of the last keypress message registered
    k_msg,              \* the Twist the last createMessage returned
    k_msg_time          \* the current_time of that call; -1 before the first

syncVars == <<capture_flags, synched_messages, subscribed, gm_pc, gm_it,
              still_pending, messages, cb_topic, cb_msg, cb_todo, delivered,
              armedAt, calls, aborted>>
clientVars == <<reg_pc, reg_name, reg_sub_ok, reg_result, regs, regs_done>>
followerVars == <<pc, trajectory, idx, wrapped_pose, extracted_pose, pose_updated,
                  camera_info_msg, image_msg, pose_msg, result, requests,
                  replies, acks, writes, index, files, sim_pose, sim_cmd>>
writerVars == <<dirs, disk, data_folder, image_count, w_kind, w_inst, w_calls,
                w_log, w_thrown>>
setupVars == <<ctor_pc, ctor_params, ctor_thrown, ctor_steps, follower_height,
               main_pc, set_calls, set_arg, set_thrown>>
parseVars == <<file_opens, file_lines, parse_pc, parse_i, parse_trajectory,
               parse_out, parse_cout>>
mathVars == <<m_pc, m_pose2d, m_msg, m_wrapped, m_twice, m_quat, m_rpy, m_pose>>
keyVars == <<k_now, k_press_time, k_pressed, k_data, k_msg, k_msg_time>>
utilVars == <<writerVars, setupVars, parseVars, mathVars, keyVars>>
vars == <<syncVars, clientVars, followerVars, utilVars>>

\* ------------------------------------------------------------------ values
NoTopic == "none"
EmptyMap == [t \in {} |-> FALSE]

\* The keys of a std::map<std::string, ...> are visited in lexicographic order.
TopicOrder == <<"/camera", "/camera_info", "/pose",
                "/world/ground_texture/dynamic_pose/info">>

\* topics the test client registers (test_data_synchronizer.cpp)
ClientTopics == {"/camera", "/pose"}

\* a default-constructed ignition::msgs::Pose: position 0, and an all-zero
\* quaternion, whose Yaw() is atan2(0, 0) = 0
DefaultPose == [x |-> 0, y |-> 0, z |-> 0, yaw |-> 0]

\* A message: seq numbers the deliveries (0: no message, the null pointer);
\* pose is the camera pose in the simulator when the message was published;
\* hasCamera tells whether a Pose_V lists the camera model.
NoMsg == [seq |-> 0, pose |-> DefaultPose, hasCamera |-> FALSE]

\* ------------------------------------------------- DataSynchronizer: register
\* capture_flags after registerTopic(name), given what node.Subscribe returned
RegisterTopic_AlwaysInserts(flags, name, success) ==
    (name :> FALSE) @@ flags

RegisterTopic(flags, name, success) ==
    IF success THEN (name :> FALSE) @@ flags ELSE flags

\* bool success = node.Subscribe(topic_name, &messageCallback<T>, this);
\* a failed subscription returns at once
RegisterSubscribe(name, ok) ==
    /\ ~aborted
    /\ reg_pc = "idle"
    /\ gm_pc = "idle"
    /\ regs < MaxRegs
    /\ regs' = regs + 1
    /\ reg_name' = name
    /\ reg_sub_ok' = ok
    /\ IF ok
       THEN /\ subscribed' = subscribed \cup {name}
            /\ reg_pc' = "insert"
            /\ UNCHANGED <<capture_flags, reg_result, regs_done>>
       ELSE /\ capture_flags' = RegisterTopic(capture_flags, name, FALSE)
            /\ reg_result' = FALSE
            /\ regs_done' = regs_done + 1
            /\ UNCHANGED <<subscribed, reg_pc>>
    /\ UNCHANGED <<synched_messages, gm_pc, gm_it, still_pending, messages,
                   cb_topic, cb_msg, cb_todo, delivered, armedAt, calls, aborted,
                   followerVars>>
    /\ UNCHANGED utilVars

\* if (success) capture_flags[topic_name] = false;  return success;
RegisterInsert ==
    /\ ~aborted
    /\ reg_pc = "insert"
    /\ capture_flags' = RegisterTopic(capture_flags, reg_name, TRUE)
    /\ reg_result' = TRUE
    /\ regs_done' = regs_done + 1
    /\ reg_pc' = "idle"
    /\ UNCHANGED <<synched_messages, subscribed, gm_pc, gm_it, still_pending,
                   messages, cb_topic, cb_msg, cb_todo, delivered, armedAt,
                   calls, aborted, reg_name, reg_sub_ok, regs, followerVars>>
    /\ UNCHANGED utilVars

\* ----------------------------------------------- DataSynchronizer: getMessages
\* positions of the key order at or after it that hold a registered topic
ArmRest(it) == {k \in it..Len(TopicOrder) : TopicOrder[k] \in DOMAIN capture_flags}

ArmNext(it) == CHOOSE k \in ArmRest(it) : \A j \in ArmRest(it) : k <= j

\* the test of `while (!still_pending)`
WhileCondition_Forever(pending) == TRUE

WhileCondition_Pending(pending) == pending

WhileCondition(pending) == ~pending

\* the body of the loop: still_pending = false; for each flag: still_pending |= flag
WaitBody(flags) == \E t \in DOMAIN flags : flags[t]

\* `return synched_messages;` copies the map out
CopyOut(stored, flags) == stored

\* entry of getMessages(): the arming iterator starts at capture_flags.begin()
GetMessagesEnter ==
    /\ gm_pc' = "arm"
    /\ gm_it' = 1
    /\ armedAt' = EmptyMap
    /\ calls' = calls + 1

\* for (auto it = capture_flags.begin(); it != capture_flags.end(); ++it)
\*     it->second = true;
\* bool still_pending = true;
ArmStep ==
    /\ ~aborted
    /\ gm_pc = "arm"
    /\ IF ArmRest(gm_it) = {}
       THEN /\ gm_pc' = "wait"
            /\ still_pending' = TRUE
            /\ UNCHANGED <<capture_flags, armedAt, gm_it>>
       ELSE LET k == ArmNext(gm_it)
                t == TopicOrder[k]
            IN  /\ capture_flags' = [capture_flags EXCEPT ![t] = TRUE]
                /\ armedAt' = (t :> delivered) @@ armedAt
                /\ gm_it' = k + 1
                /\ UNCHANGED <<gm_pc, still_pending>>
    /\ UNCHANGED <<synched_messages, subscribed, messages, cb_topic, cb_msg,
                   cb_todo, delivered, calls, aborted, clientVars, followerVars>>
    /\ UNCHANGED utilVars

\* while (!still_pending) { still_pending = false; for (...) still_pending |= flag; }
WaitLoop ==
    /\ ~aborted
    /\ gm_pc = "wait"
    /\ IF WhileCondition(still_pending)
       THEN /\ still_pending' = WaitBody(capture_flags)
            /\ UNCHANGED gm_pc
       ELSE /\ gm_pc' = "copy"
            /\ UNCHANGED still_pending
    /\ UNCHANGED <<capture_flags, synched_messages, subscribed, gm_it, messages,
                   cb_topic, cb_msg, cb_todo, delivered, armedAt, calls,
                   aborted, clientVars, followerVars>>
    /\ UNCHANGED utilVars

\* return synched_messages;
GetMessagesReturn ==
    /\ ~aborted
    /\ gm_pc = "copy"
    /\ messages' = CopyOut(synched_messages, capture_flags)
    /\ gm_pc' = "returned"
    /\ UNCHANGED <<capture_flags, synched_messages, subscribed, gm_it,
                   still_pending, cb_topic, cb_msg, cb_todo, delivered, armedAt,
                   calls, aborted, clientVars, followerVars>>
    /\ UNCHANGED utilVars

\* --------------------------------------------- DataSynchronizer: messageCallback
\* which of the callback's two stores may become visible next.  The flag and
\* the sample are plain fields written without a lock while getMessages()
\* reads them on another thread (a data race), so the stores can become
\* visible in program order (sample, then flag) or in the other order.
StoreEnabled(todo, store) == store \in todo

\* if (capture_flags.at(info.Topic())) { ... }
\* at() throws std::out_of_range for a topic whose flag is not inserted yet; the
\* exception leaves the reception thread and terminates the process.
\* budget: how many messages the transport delivers in the run
messageCallback(t, m, budget) ==
    /\ ~aborted
    /\ cb_topic = NoTopic
    /\ t \in subscribed
    /\ delivered < budget
    /\ delivered' = delivered + 1
    /\ IF t \notin DOMAIN capture_flags
       THEN /\ aborted' = TRUE
            /\ UNCHANGED <<cb_topic, cb_msg, cb_todo>>
       ELSE /\ UNCHANGED aborted
            /\ IF capture_flags[t]
               THEN /\ cb_topic' = t
                    /\ cb_msg' = [m EXCEPT !.seq = delivered + 1]
                    /\ cb_todo' = {"sample", "flag"}
               ELSE UNCHANGED <<cb_topic, cb_msg, cb_todo>>
    /\ UNCHANGED <<capture_flags, synched_messages, subscribed, gm_pc, gm_it,
                   still_pending, messages, armedAt, calls, clientVars, followerVars>>
    /\ UNCHANGED utilVars

CallbackEnter(t, m) == messageCallback(t, m, MaxDeliveries)

CallbackFinish(todo) ==
    /\ cb_todo' = todo
    /\ cb_topic' = IF todo = {} THEN NoTopic ELSE cb_topic
    /\ UNCHANGED cb_msg

StoreSample_AllTopics(stored, topic, msg) ==
    [t \in DOMAIN stored \cup {topic} |-> msg]

\* synched_messages[info.Topic()] = std::make_shared<T>(message);
\* a new object takes the topic's place in the map; no stored object is written
StoreSample(stored, topic, msg) == (topic :> msg) @@ stored

CallbackStoreSample ==
    /\ ~aborted
    /\ cb_topic # NoTopic
    /\ StoreEnabled(cb_todo, "sample")
    /\ synched_messages' = StoreSample(synched_messages, cb_topic, cb_msg)
    /\ CallbackFinish(cb_todo \ {"sample"})
    /\ UNCHANGED <<capture_flags, subscribed, gm_pc, gm_it, still_pending,
                   messages, delivered, armedAt, calls, aborted, clientVars, followerVars>>
    /\ UNCHANGED utilVars

\* capture_flags.at(info.Topic()) = false;
CallbackClearFlag ==
    /\ ~aborted
    /\ cb_topic # NoTopic
    /\ StoreEnabled(cb_todo, "flag")
    /\ capture_flags' = [capture_flags EXCEPT ![cb_topic] = FALSE]
    /\ CallbackFinish(cb_todo \ {"flag"})
    /\ UNCHANGED <<synched_messages, subscribed, gm_pc, gm_it, still_pending,
                   messages, delivered, armedAt, calls, aborted, clientVars, followerVars>>
    /\ UNCHANGED utilVars

\* ------------------------------------------------- the synchronizer's test client
\* auto results = synchronizer.getMessages();
ClientCall ==
    /\ ~aborted
    /\ gm_pc = "idle"
    /\ reg_pc = "idle"
    /\ calls < MaxCalls
    /\ GetMessagesEnter
    /\ UNCHANGED <<capture_flags, synched_messages, subscribed, still_pending,
                   messages, cb_topic, cb_msg, cb_todo, delivered, aborted,
                   clientVars, followerVars>>
    /\ UNCHANGED utilVars

\* the client has the returned map and goes on
ClientTake ==
    /\ ~aborted
    /\ gm_pc = "returned"
    /\ gm_pc' = "idle"
    /\ UNCHANGED <<capture_flags, synched_messages, subscribed, gm_it,
                   still_pending, messages, cb_topic, cb_msg, cb_todo, delivered,
                   armedAt, calls, aborted, clientVars, followerVars>>
    /\ UNCHANGED utilVars

\* ------------------------------------------------------------ transform_math
\* M_PI in units of 1e-6 rad
Pi == 3141593

TwoPi == 2 * Pi

Abs(a) == IF a < 0 THEN -a ELSE a

\* the remainder of C's fmod: it has the sign of a
TruncMod(a, m) == IF a >= 0 THEN a % m ELSE -((-a) % m)

\* return atan2(sin(angle), cos(angle));
wrapAngle_Floor(angle) == angle % TwoPi

\* return atan2(sin(angle), cos(angle));
\* At an odd multiple of pi the sine of the double is a tiny number with the
\* sign of the angle, so 3*pi wraps to pi and -3*pi to -pi.
wrapAngle(angle) ==
    LET r == angle % TwoPi
    IN  IF r < Pi THEN r
        ELSE IF r > Pi THEN r - TwoPi
        ELSE IF angle > 0 THEN Pi ELSE -Pi

\* ignition::math::Quaternion<Scalar>(0, 0, yaw): x = y = 0, z = sin(yaw/2),
\* w = cos(yaw/2).  qa is the angle that (z, w) is the half-angle pair of; it is
\* kept modulo 4*pi, since yaw and yaw + 4*pi give the same (z, w), while yaw and
\* yaw + 2*pi give q and -q.
quaternionFromYaw(yaw) == [qx |-> 0, qy |-> 0, qa |-> TruncMod(yaw, 2 * TwoPi)]

\* quaternion.Yaw(): atan2(2(wz + xy), w^2 + x^2 - y^2 - z^2) = atan2(sin qa, cos qa)
QuatYaw(q) == wrapAngle(q.qa)

\* quaternionMsgFromYaw(yaw): the four components of quaternionFromYaw(yaw)
\* copied into the message
quaternionMsgFromYaw(yaw) ==
    LET quaternion == quaternionFromYaw(yaw)
    IN  [qx |-> quaternion.qx, qy |-> quaternion.qy, qa |-> quaternion.qa]

\* quaternion.Roll() = atan2(2(yz + wx), w^2 - x^2 - y^2 + z^2) and
\* quaternion.Pitch() = asin(-2(xz - wy)): both 0 when x = y = 0
QuatRoll(q) == IF q.qx = 0 /\ q.qy = 0 THEN 0 ELSE q.qx

QuatPitch(q) == IF q.qx = 0 /\ q.qy = 0 THEN 0 ELSE q.qy

\* return std::make_tuple(roll, pitch, yaw);
RPYFromQuaternion_RawAngle(quaternion) ==
    <<QuatRoll(quaternion), QuatPitch(quaternion), quaternion.qa>>

RPYFromQuaternion(quaternion) ==
    <<QuatRoll(quaternion), QuatPitch(quaternion), QuatYaw(quaternion)>>

\* ignition::math::Quaternion quaternion_math(w, x, y, z) of the message,
\* then as RPYFromQuaternion
RPYFromQuaternionMsg(quaternion) ==
    RPYFromQuaternion([qx |-> quaternion.qx, qy |-> quaternion.qy,
                       qa |-> quaternion.qa])

\* poseMsgFromPose2D(pose2D): position (x, y, 0), orientation from the yaw
poseMsgFromPose2D_NoRotation(pose2D) ==
    [x |-> pose2D.x, y |-> pose2D.y, z |-> 0,
     orientation |-> quaternionFromYaw(0)]

poseMsgFromPose2D(pose2D) ==
    [x |-> pose2D.x, y |-> pose2D.y, z |-> 0,
     orientation |-> quaternionFromYaw(pose2D.yaw)]

\* ------------------------------------------------------- TrajectoryFollower
\* TrajectoryFollower::Parameters defaults
camera_height == 250000
camera_model_name == "camera"
image_topic == "/camera"
camera_info_topic == "/camera_info"
poses_topic == "/world/ground_texture/dynamic_pose/info"

FollowerTopics == {image_topic, camera_info_topic, poses_topic}

\* double eps = 1e-6;
Eps == 1

NoCmd == [x |-> 0, y |-> 0, z |-> -1, yaw |-> 0]

\* The trajectory files: the prefixes of a path that alternates between two
\* poses that share x and y and differ in yaw; the first has a yaw outside
\* [-pi, pi].
Path ==
    [i \in 1..MaxWaypoints |->
        IF i % 2 = 1 THEN [x |-> 5, y |-> 0, yaw |-> 3 * Pi]
                     ELSE [x |-> 5, y |-> 0, yaw |-> 0]]

\* a waypoint where the camera already is when the run starts
Origin == [x |-> 0, y |-> 0, yaw |-> 0]

Trajectories == { SubSeq(Path, 1, n) : n \in 0..MaxWaypoints } \cup { <<Origin>> }

\* the jitter of a reported position
Noise == {0, Eps}

\* messages[topic].get(): operator[] inserts a null pointer for a missing key
Get(map, t) == IF t \in DOMAIN map THEN map[t] ELSE NoMsg

\* the request sendPose builds: poseMsgFromPose2D(pose), set_name, set_z
PoseRequest(pose) ==
    [poseMsgFromPose2D(pose) EXCEPT !.z = camera_height]
        @@ [name |-> camera_model_name]

\* return executed && result && response.data();
SendPoseResult_IgnoresData(executed, res, data) == executed /\ res

SendPoseResult(executed, res, data) == executed /\ res /\ data

\* if (!success) { ...; return false; }
SendFailed(success) == ~success

\* pose_updated = true; pose_updated &= abs(dx) <= eps; ... abs(dy) ...;
\* (abs of a double: transform_math.h includes <math.h>)
\* pose_updated &= abs(quaternion.Yaw() - wrapped_pose.yaw) <= eps;
PoseUpdated_NoYaw(extracted, wrapped) ==
    /\ Abs(extracted.x - wrapped.x) <= Eps
    /\ Abs(extracted.y - wrapped.y) <= Eps

PoseUpdated(extracted, wrapped) ==
    /\ Abs(extracted.x - wrapped.x) <= Eps
    /\ Abs(extracted.y - wrapped.y) <= Eps
    /\ Abs(extracted.yaw - wrapped.yaw) <= Eps

\* the test of `while (!pose_updated)`
WhileNotUpdated_Skips(updated) == FALSE

WhileNotUpdated(updated) == ~updated

\* for (i < pose_msg->pose_size()) if (pose(i).name() == camera_model_name)
\*     extracted_pose = pose_msg->pose(i);
ExtractPose(old, msg) == IF msg.hasCamera THEN msg.pose ELSE old

\* ---------------------------------------------------------------- DataWriter
\* bool DataWriter::writeData(image, pose, camera_info) { return false; }
\* The writer state after the call and what the call returned.
writeData(w, image, pose, camera_info) ==
    [index |-> w.index, files |-> w.files, ok |-> FALSE]

\* ------------------------------------------------- captureTrajectory, by step
syncFrame == <<capture_flags, synched_messages, subscribed, still_pending,
               cb_topic, cb_msg, cb_todo, delivered>>

FinishedCapturing_ReportsFailure == "false"

\* std::cout << "Finished capturing!" << std::endl;  return true;
FinishedCapturing == "true"

\* for (auto && pose : trajectory) { wrapped_pose = pose;
\*     wrapped_pose.yaw = wrapAngle(pose.yaw); ... }  return true;
LoopHead ==
    /\ ~aborted
    /\ pc = "loop"
    /\ IF idx > Len(trajectory)
       THEN /\ result' = FinishedCapturing
            /\ pc' = "done"
            /\ UNCHANGED wrapped_pose
       ELSE /\ wrapped_pose' = [trajectory[idx] EXCEPT !.yaw = wrapAngle(@)]
            /\ pc' = "send"
            /\ UNCHANGED result
    /\ UNCHANGED <<syncFrame, gm_pc, gm_it, messages, armedAt, calls, aborted,
                   clientVars, trajectory, idx, extracted_pose, pose_updated,
                   camera_info_msg, image_msg, pose_msg, requests, replies,
                   acks, writes, index, files, sim_pose, sim_cmd>>
    /\ UNCHANGED utilVars

\* bool success = capturePose(wrapped_pose);   (capturePose returns sendPose)
\* node.Request(model_move_service, pose_request, timeout, response, result)
\* The simulator queues the command it acknowledged.
\* Then: extracted_pose is default-constructed, pose_updated = false.
SendPose(executed, res, data) ==
    /\ ~aborted
    /\ pc = "send"
    /\ LET request == PoseRequest(wrapped_pose)
           success == SendPoseResult(executed, res, data)
       IN  /\ requests' = Append(requests, request)
           /\ replies' = Append(replies,
                    [executed |-> executed, result |-> res, data |-> data])
           /\ acks' = Append(acks, success)
           /\ sim_cmd' = IF executed /\ res /\ data
                         THEN [x |-> request.x, y |-> request.y, z |-> request.z,
                               yaw |-> QuatYaw(request.orientation)]
                         ELSE sim_cmd
           /\ IF SendFailed(success)
              THEN /\ result' = "false"
                   /\ pc' = "done"
                   /\ UNCHANGED <<extracted_pose, pose_updated>>
              ELSE /\ extracted_pose' = DefaultPose
                   /\ pose_updated' = FALSE
                   /\ pc' = "poll"
                   /\ UNCHANGED result
    /\ UNCHANGED <<syncFrame, gm_pc, gm_it, messages, armedAt, calls, aborted,
                   clientVars, trajectory, idx, wrapped_pose, camera_info_msg,
                   image_msg, pose_msg, writes, index, files, sim_pose>>
    /\ UNCHANGED utilVars

\* while (!pose_updated) { auto messages = data_synchronizer.getMessages(); ...
PollCall ==
    /\ ~aborted
    /\ pc = "poll"
    /\ WhileNotUpdated(pose_updated)
    /\ gm_pc = "idle"
    /\ calls < MaxCalls
    /\ GetMessagesEnter
    /\ pc' = "in_get"
    /\ UNCHANGED <<syncFrame, messages, aborted, clientVars, trajectory, idx,
                   wrapped_pose, extracted_pose, pose_updated, camera_info_msg,
                   image_msg, pose_msg, result, requests, replies, acks, writes,
                   index, files, sim_pose, sim_cmd>>
    /\ UNCHANGED utilVars

\* the rest of the loop body, all on locals: the three casts, the scan of the
\* Pose_V for the camera model and the comparison.  pose_msg->pose_size() on a
\* null pose_msg is a null dereference: the process dies with a segfault.
PollCheck ==
    /\ ~aborted
    /\ pc = "in_get"
    /\ gm_pc = "returned"
    /\ gm_pc' = "idle"
    /\ camera_info_msg' = Get(messages, camera_info_topic)
    /\ image_msg' = Get(messages, image_topic)
    /\ pose_msg' = Get(messages, poses_topic)
    /\ IF pose_msg'.seq = 0
       THEN /\ aborted' = TRUE
            /\ pc' = "crashed"
            /\ UNCHANGED <<extracted_pose, pose_updated>>
       ELSE /\ extracted_pose' = ExtractPose(extracted_pose, pose_msg')
            /\ pose_updated' = PoseUpdated(extracted_pose', wrapped_pose)
            /\ pc' = "poll"
            /\ UNCHANGED aborted
    /\ UNCHANGED <<syncFrame, gm_it, messages, armedAt, calls, clientVars,
                   trajectory, idx, wrapped_pose, result, requests, replies,
                   acks, writes, index, files, sim_pose, sim_cmd>>
    /\ UNCHANGED utilVars

\* data_writer.writeData(*image_msg, extracted_pose, *camera_info_msg);
\* its return value is not looked at; then the next pose of the trajectory
WriteStep ==
    /\ ~aborted
    /\ pc = "poll"
    /\ ~WhileNotUpdated(pose_updated)
    /\ LET w == writeData([index |-> index, files |-> files],
                          image_msg, extracted_pose, camera_info_msg)
       IN  /\ index' = w.index
           /\ files' = w.files
           /\ writes' = Append(writes,
                    [waypoint |-> idx, image |-> image_msg,
                     pose |-> extracted_pose, camera_info |-> camera_info_msg,
                     index |-> index, ok |-> w.ok])
    /\ idx' = idx + 1
    /\ pc' = "loop"
    /\ UNCHANGED <<syncFrame, gm_pc, gm_it, messages, armedAt, calls, aborted,
                   clientVars, trajectory, wrapped_pose, extracted_pose,
                   pose_updated, camera_info_msg, image_msg, pose_msg, result,
                   requests, replies, acks, sim_pose, sim_cmd>>
    /\ UNCHANGED utilVars

\* ---------------------------------------------------------------- simulator
\* the simulator applies the queued set_pose command
SimApply ==
    /\ ~aborted
    /\ sim_cmd # NoCmd
    /\ sim_pose' = sim_cmd
    /\ sim_cmd' = NoCmd
    /\ UNCHANGED <<syncVars, clientVars, pc, trajectory, idx, wrapped_pose,
                   extracted_pose, pose_updated, camera_info_msg, image_msg,
                   pose_msg, result, requests, replies, acks, writes, index,
                   files>>
    /\ UNCHANGED utilVars

\* what the simulator publishes on topic t: the camera image and info of the
\* current pose; the pose list, with or without the camera model in it, its
\* position within the jitter
SimMessages(t) ==
    IF t = poses_topic
    THEN { [seq |-> 0, pose |-> [sim_pose EXCEPT !.x = @ + n], hasCamera |-> TRUE] :
                n \in Noise }
         \cup { [seq |-> 0, pose |-> DefaultPose, hasCamera |-> FALSE] }
    ELSE { [seq |-> 0, pose |-> sim_pose, hasCamera |-> FALSE] }

\* no DataWriter constructed yet; only the working directory exists
WriterOff ==
    /\ dirs = {""}
    /\ disk = EmptyMap
    /\ data_folder = ""
    /\ image_count = 0
    /\ w_kind = "none"
    /\ w_inst = 0
    /\ w_calls = 0
    /\ w_log = << >>
    /\ w_thrown = "none"

\* no TrajectoryFollower is being constructed
SetupOff ==
    /\ ctor_pc = "off"
    /\ ctor_params = [camera_height |-> 0, output_folder |-> ""]
    /\ ctor_thrown = "none"
    /\ ctor_steps = [s \in {"height", "folder", "topics"} |-> 0]
    /\ follower_height = 0
    /\ main_pc = "construct"
    /\ set_calls = 0
    /\ set_arg = 0
    /\ set_thrown = "none"

\* parseFile is not running
ParseOff ==
    /\ file_opens = FALSE
    /\ file_lines = << >>
    /\ parse_pc = "off"
    /\ parse_i = 0
    /\ parse_trajectory = << >>
    /\ parse_out = << >>
    /\ parse_cout = << >>

\* no transform_math test is running
MathOff ==
    /\ m_pc = "off"
    /\ m_pose2d = [x |-> 0, y |-> 0, yaw |-> 0]
    /\ m_msg = FALSE
    /\ m_wrapped = 0
    /\ m_twice = 0
    /\ m_quat = [qx |-> 0, qy |-> 0, qa |-> 0]
    /\ m_rpy = <<0, 0, 0>>
    /\ m_pose = [x |-> 0, y |-> 0, z |-> 0,
                 orientation |-> [qx |-> 0, qy |-> 0, qa |-> 0]]

\* no KeyboardController exists
KeyboardOff ==
    /\ k_now = 0
    /\ k_press_time = EmptyMap
    /\ k_pressed = << >>
    /\ k_data = 0
    /\ k_msg = EmptyMap
    /\ k_msg_time = -1

FollowerOff ==
    /\ pc = "off"
    /\ trajectory = << >>
    /\ idx = 1
    /\ wrapped_pose = [x |-> 0, y |-> 0, yaw |-> 0]
    /\ extracted_pose = DefaultPose
    /\ pose_updated = FALSE
    /\ camera_info_msg = NoMsg
    /\ image_msg = NoMsg
    /\ pose_msg = NoMsg
    /\ result = "none"
    /\ requests = << >>
    /\ replies = << >>
    /\ acks = << >>
    /\ writes = << >>
    /\ index = 0
    /\ files = EmptyMap
    /\ sim_pose = DefaultPose
    /\ sim_cmd = NoCmd

\* After TrajectoryFollower(parameters) with the default parameters: the three
\* topics are registered and unarmed, the writer's index is 0; main() calls
\* captureTrajectory(trajectory).
Init ==
    /\ capture_flags = [t \in FollowerTopics |-> FALSE]
    /\ synched_messages = EmptyMap
    /\ subscribed = FollowerTopics
    /\ gm_pc = "idle"
    /\ gm_it = 1
    /\ still_pending = TRUE
    /\ messages = EmptyMap
    /\ cb_topic = NoTopic
    /\ cb_msg = NoMsg
    /\ cb_todo = {}
    /\ reg_pc = "idle"
    /\ reg_name = NoTopic
    /\ reg_sub_ok = FALSE
    /\ reg_result = FALSE
    /\ regs = 0
    /\ regs_done = 0
    /\ delivered = 0
    /\ armedAt = EmptyMap
    /\ calls = 0
    /\ aborted = FALSE
    /\ pc = "loop"
    /\ trajectory \in Trajectories
    /\ idx = 1
    /\ wrapped_pose = [x |-> 0, y |-> 0, yaw |-> 0]
    /\ extracted_pose = DefaultPose
    /\ pose_updated = FALSE
    /\ camera_info_msg = NoMsg
    /\ image_msg = NoMsg
    /\ pose_msg = NoMsg
    /\ result = "none"
    /\ requests = << >>
    /\ replies = << >>
    /\ acks = << >>
    /\ writes = << >>
    /\ index = 0
    /\ files = EmptyMap
    /\ sim_pose = [DefaultPose EXCEPT !.z = camera_height]
    /\ sim_cmd = NoCmd
    /\ WriterOff
    /\ SetupOff
    /\ ParseOff
    /\ MathOff
    /\ KeyboardOff

Next ==
    \/ LoopHead
    \/ \E executed \in BOOLEAN, res \in BOOLEAN, data \in BOOLEAN :
            SendPose(executed, res, data)
    \/ PollCall
    \/ ArmStep
    \/ WaitLoop
    \/ GetMessagesReturn
    \/ PollCheck
    \/ WriteStep
    \/ SimApply
    \/ \E t \in FollowerTopics : \E m \in SimMessages(t) : CallbackEnter(t, m)
    \/ CallbackStoreSample
    \/ CallbackClearFlag

Spec == Init /\ [][Next]_vars

\* the thread of captureTrajectory, with the getMessages() calls it makes
FollowerThread ==
    \/ LoopHead
    \/ \E executed \in BOOLEAN, res \in BOOLEAN, data \in BOOLEAN :
            SendPose(executed, res, data)
    \/ PollCall
    \/ ArmStep
    \/ WaitLoop
    \/ GetMessagesReturn
    \/ PollCheck
    \/ WriteStep

\* the transport's reception thread: the three topics keep publishing
ReceptionThread ==
    \/ \E t \in FollowerTopics : \E m \in SimMessages(t) : CallbackEnter(t, m)
    \/ CallbackStoreSample
    \/ CallbackClearFlag

\* every thread is scheduled as long as it can run, and the simulator executes
\* the move it acknowledged
FairSpec ==
    /\ Spec
    /\ WF_vars(FollowerThread)
    /\ WF_vars(ReceptionThread)
    /\ WF_vars(SimApply)

\* ------------------------------------------ the synchronizer under its test client
\* DataSynchronizer::DataSynchronizer() {}
SyncInit ==
    /\ capture_flags = EmptyMap
    /\ synched_messages = EmptyMap
    /\ subscribed = {}
    /\ gm_pc = "idle"
    /\ gm_it = 1
    /\ still_pending = TRUE
    /\ messages = EmptyMap
    /\ cb_topic = NoTopic
    /\ cb_msg = NoMsg
    /\ cb_todo = {}
    /\ reg_pc = "idle"
    /\ reg_name = NoTopic
    /\ reg_sub_ok = FALSE
    /\ reg_result = FALSE
    /\ regs = 0
    /\ regs_done = 0
    /\ delivered = 0
    /\ armedAt = EmptyMap
    /\ calls = 0
    /\ aborted = FALSE
    /\ FollowerOff
    /\ WriterOff
    /\ SetupOff
    /\ ParseOff
    /\ MathOff
    /\ KeyboardOff

SyncNext ==
    \/ \E name \in ClientTopics, ok \in BOOLEAN : RegisterSubscribe(name, ok)
    \/ RegisterInsert
    \/ ClientCall
    \/ ArmStep
    \/ WaitLoop
    \/ GetMessagesReturn
    \/ ClientTake
    \/ \E t \in ClientTopics : CallbackEnter(t, NoMsg)
    \/ CallbackStoreSample
    \/ CallbackClearFlag

SyncSpec == SyncInit /\ [][SyncNext]_vars

\* the caller's thread is scheduled as long as it can run
SyncFairSpec ==
    /\ SyncSpec
    /\ WF_vars(ArmStep)
    /\ WF_vars(WaitLoop)
    /\ WF_vars(GetMessagesReturn)

\* ------------------------------------------------ DataWriter and the file system
\* the paths used: the working directory, a folder in it, a folder in that one
Folders == {"", "out", "out/run"}

Parent(p) == IF p = "out/run" THEN "out" ELSE ""

\* ignition::msgs::PixelFormatType values an image can carry
PixelFormats == {"RGB_INT8", "L_INT8"}

\* a file the writer did not write
Foreign == [inst |-> 0, call |-> 0]

\* the file systems a run can start in: folders that exist with their parents,
\* and files an earlier run left in them
StartDirs == {{""}, {"", "out"}, {"", "out", "out/run"}}

StartDisk(ds) ==
    {EmptyMap,
     [k \in {<<f, 0, kind>> : f \in ds, kind \in {".png", ".txt"}} |-> Foreign]}

\* std::filesystem::create_directory(path): one mkdir.  An existing directory
\* is no error; a missing parent makes it throw filesystem_error.
create_directory(ds, path) ==
    IF path \in ds THEN [dirs |-> ds, thrown |-> FALSE]
    ELSE IF Parent(path) \in ds THEN [dirs |-> ds \cup {path}, thrown |-> FALSE]
    ELSE [dirs |-> ds, thrown |-> TRUE]

\* DataWriter::setDataFolder(data_folder): the member is assigned first
setDataFolder(ds, folder) ==
    IF folder # ""
    THEN [data_folder |-> folder] @@ create_directory(ds, folder)
    ELSE [data_folder |-> folder, dirs |-> ds, thrown |-> FALSE]

\* the switch on pixel_format_type(): only RGB_INT8 has a case
PixelFormatSupported_Any(format) == TRUE

PixelFormatSupported(format) == format = "RGB_INT8"

\* DataWriter::registerImage(msg) of follow_trajectory.cpp: current_image = msg;
\* writeData(): %06d of image_count, SavePNG(base + ".png"), ofstream
\* base + ".txt" (both replace an existing file), image_count++; an unknown
\* pixel type prints to std::cerr and returns before anything is written.
registerImage(w, format, content) ==
    IF PixelFormatSupported(format)
    THEN [image_count |-> w.image_count + 1,
          files |-> [k \in {<<"", w.image_count, ".png">>,
                            <<"", w.image_count, ".txt">>} |-> content] @@ w.files,
          written |-> {<<"", w.image_count, ".png">>, <<"", w.image_count, ".txt">>},
          cerr |-> FALSE]
    ELSE [image_count |-> w.image_count, files |-> w.files, written |-> {},
          cerr |-> TRUE]

\* DataWriter::DataWriter() / DataWriter(data_folder): index = 0; setDataFolder(...)
\* An exception of setDataFolder leaves the constructor: no instance exists.
NewWriter(folder) ==
    /\ w_inst < MaxWriters
    /\ w_inst' = w_inst + 1
    /\ LET r == setDataFolder(dirs, folder)
       IN  /\ dirs' = r.dirs
           /\ data_folder' = r.data_folder
           /\ w_thrown' = IF r.thrown THEN "filesystem_error" ELSE "none"
           /\ w_kind' = IF r.thrown THEN "none" ELSE "writer"
    /\ index' = 0
    /\ w_calls' = 0
    /\ UNCHANGED <<disk, image_count, w_log>>
    /\ UNCHANGED <<syncVars, clientVars, pc, trajectory, idx, wrapped_pose,
                   extracted_pose, pose_updated, camera_info_msg, image_msg,
                   pose_msg, result, requests, replies, acks, writes, files,
                   sim_pose, sim_cmd, setupVars, parseVars,
                   mathVars, keyVars>>

\* writer.setDataFolder(subfolder) of the writer's client
SetDataFolder(folder) ==
    /\ w_kind = "writer"
    /\ LET r == setDataFolder(dirs, folder)
       IN  /\ dirs' = r.dirs
           /\ data_folder' = r.data_folder
           /\ w_thrown' = IF r.thrown THEN "filesystem_error" ELSE "none"
    /\ UNCHANGED <<disk, image_count, w_kind, w_inst, w_calls, w_log>>
    /\ UNCHANGED <<syncVars, clientVars, followerVars, setupVars, parseVars,
                   mathVars, keyVars>>

\* writer.writeData(image, pose, camera_info) of the writer's client
WriteData(format) ==
    /\ w_kind = "writer"
    /\ Len(w_log) < MaxWrites
    /\ LET w == writeData([index |-> index, files |-> disk],
                          [format |-> format] @@ [NoMsg EXCEPT !.seq = 1],
                          DefaultPose, NoMsg)
       IN  /\ index' = w.index
           /\ disk' = w.files
           /\ w_log' = Append(w_log,
                    [kind |-> "writer", inst |-> w_inst, k |-> w_calls + 1,
                     format |-> format, folder |-> data_folder,
                     index_before |-> index, index_after |-> w.index,
                     ok |-> w.ok, cerr |-> FALSE,
                     written |-> {k \in DOMAIN w.files :
                                    k \notin DOMAIN disk \/ w.files[k] # disk[k]}])
    /\ w_calls' = w_calls + 1
    /\ UNCHANGED <<dirs, data_folder, image_count, w_kind, w_inst, w_thrown>>
    /\ UNCHANGED <<syncVars, clientVars, pc, trajectory, idx, wrapped_pose,
                   extracted_pose, pose_updated, camera_info_msg, image_msg,
                   pose_msg, result, requests, replies, acks, writes, files,
                   sim_pose, sim_cmd, setupVars, parseVars,
                   mathVars, keyVars>>

\* DataWriter::DataWriter() of follow_trajectory.cpp: image_count = 0; it writes
\* into the working directory
NewLegacyWriter ==
    /\ w_inst < MaxWriters
    /\ w_inst' = w_inst + 1
    /\ w_kind' = "legacy"
    /\ image_count' = 0
    /\ data_folder' = ""
    /\ w_calls' = 0
    /\ w_thrown' = "none"
    /\ UNCHANGED <<dirs, disk, w_log>>
    /\ UNCHANGED <<syncVars, clientVars, followerVars, setupVars, parseVars,
                   mathVars, keyVars>>

\* the transport hands an image to DataWriter::registerImage
RegisterImage(format) ==
    /\ w_kind = "legacy"
    /\ Len(w_log) < MaxWrites
    /\ LET w == registerImage([image_count |-> image_count, files |-> disk],
                              format, [inst |-> w_inst, call |-> w_calls + 1])
       IN  /\ image_count' = w.image_count
           /\ disk' = w.files
           /\ w_log' = Append(w_log,
                    [kind |-> "legacy", inst |-> w_inst, k |-> w_calls + 1,
                     format |-> format, folder |-> data_folder,
                     index_before |-> image_count, index_after |-> w.image_count,
                     ok |-> ~w.cerr, cerr |-> w.cerr, written |-> w.written])
    /\ w_calls' = w_calls + 1
    /\ UNCHANGED <<dirs, data_folder, w_kind, w_inst, w_thrown>>
    /\ UNCHANGED <<syncVars, clientVars, followerVars, setupVars, parseVars,
                   mathVars, keyVars>>

\* no synchronizer is constructed
SynchronizerOff ==
    /\ capture_flags = EmptyMap
    /\ synched_messages = EmptyMap
    /\ subscribed = {}
    /\ gm_pc = "idle"
    /\ gm_it = 1
    /\ still_pending = TRUE
    /\ messages = EmptyMap
    /\ cb_topic = NoTopic
    /\ cb_msg = NoMsg
    /\ cb_todo = {}
    /\ reg_pc = "idle"
    /\ reg_name = NoTopic
    /\ reg_sub_ok = FALSE
    /\ reg_result = FALSE
    /\ regs = 0
    /\ regs_done = 0
    /\ delivered = 0
    /\ armedAt = EmptyMap
    /\ calls = 0
    /\ aborted = FALSE

\* the DataWriter tests and the runs of follow_trajectory.cpp's writer: the
\* file system as an earlier run left it, no writer constructed yet
WriterInit ==
    /\ SynchronizerOff
    /\ FollowerOff
    /\ SetupOff
    /\ ParseOff
    /\ MathOff
    /\ KeyboardOff
    /\ dirs \in StartDirs
    /\ disk \in StartDisk(dirs)
    /\ data_folder = ""
    /\ image_count = 0
    /\ w_kind = "none"
    /\ w_inst = 0
    /\ w_calls = 0
    /\ w_log = << >>
    /\ w_thrown = "none"

WriterNext ==
    \/ \E folder \in Folders : NewWriter(folder)
    \/ \E folder \in Folders : SetDataFolder(folder)
    \/ \E format \in PixelFormats : WriteData(format)
    \/ NewLegacyWriter
    \/ \E format \in PixelFormats : RegisterImage(format)

WriterSpec == WriterInit /\ [][WriterNext]_vars

\* ------------------------------------- TrajectoryFollower: construction, height
\* camera heights a caller passes: -1.0, 0.0 and the default 0.25
Heights == {-1000000, 0, camera_height}

\* the order of the three registerTopic calls of the constructor
CtorTopics == <<image_topic, camera_info_topic, poses_topic>>

\* if (camera_height >= 0.0) this->camera_height = camera_height;
\* else throw std::invalid_argument(...)
setCameraHeight_RejectsZero(height, h) ==
    IF h > 0 THEN [camera_height |-> h, thrown |-> FALSE]
    ELSE [camera_height |-> height, thrown |-> TRUE]

setCameraHeight(height, h) ==
    IF h >= 0 THEN [camera_height |-> h, thrown |-> FALSE]
    ELSE [camera_height |-> height, thrown |-> TRUE]

\* return camera_height;
getCameraHeight(height) == height

\* try { data_writer.setDataFolder(...); }
\* catch (const std::filesystem::filesystem_error & e) { throw std::invalid_argument(e.what()); }
CatchFilesystemError_Missing(thrown) ==
    IF thrown THEN "filesystem_error" ELSE "none"

CatchFilesystemError(thrown) ==
    IF thrown THEN "invalid_argument" ELSE "none"

\* setCameraHeight(parameters.camera_height);
CtorHeight ==
    /\ ctor_pc = "height"
    /\ LET r == setCameraHeight(follower_height, ctor_params.camera_height)
       IN  /\ follower_height' = r.camera_height
           /\ ctor_thrown' = IF r.thrown THEN "invalid_argument" ELSE "none"
           /\ ctor_pc' = IF r.thrown THEN "thrown" ELSE "folder"
    /\ ctor_steps' = [ctor_steps EXCEPT !["height"] = @ + 1]
    /\ UNCHANGED <<ctor_params, main_pc, set_calls, set_arg, set_thrown>>
    /\ UNCHANGED <<syncVars, clientVars, followerVars, writerVars, parseVars,
                   mathVars, keyVars>>

\* data_writer.setDataFolder(parameters.output_folder) inside the try block
CtorFolder ==
    /\ ctor_pc = "folder"
    /\ LET r == setDataFolder(dirs, ctor_params.output_folder)
       IN  /\ dirs' = r.dirs
           /\ data_folder' = r.data_folder
           /\ w_thrown' = IF r.thrown THEN "filesystem_error" ELSE "none"
           /\ ctor_thrown' = CatchFilesystemError(r.thrown)
           /\ ctor_pc' = IF r.thrown THEN "thrown" ELSE "topics"
    /\ ctor_steps' = [ctor_steps EXCEPT !["folder"] = @ + 1]
    /\ UNCHANGED <<disk, image_count, w_kind, w_inst, w_calls, w_log>>
    /\ UNCHANGED <<ctor_params, follower_height, main_pc, set_calls, set_arg,
                   set_thrown>>
    /\ UNCHANGED <<syncVars, clientVars, followerVars, parseVars,
                   mathVars, keyVars>>

\* if (!data_synchronizer.registerTopic<T>(topic)) throw std::invalid_argument(...)
\* for the image, the camera info and the pose topic, in this order
CtorRegister(ok) ==
    /\ ctor_pc = "topics"
    /\ LET topic == CtorTopics[ctor_steps["topics"] + 1]
       IN  /\ capture_flags' = RegisterTopic(capture_flags, topic, ok)
           /\ subscribed' = IF ok THEN subscribed \cup {topic} ELSE subscribed
    /\ ctor_steps' = [ctor_steps EXCEPT !["topics"] = @ + 1]
    /\ ctor_thrown' = IF ok THEN "none" ELSE "invalid_argument"
    /\ ctor_pc' = IF ~ok THEN "thrown"
                  ELSE IF ctor_steps'["topics"] = Len(CtorTopics) THEN "store"
                  ELSE "topics"
    /\ UNCHANGED <<ctor_params, follower_height, main_pc, set_calls, set_arg,
                   set_thrown>>
    /\ UNCHANGED <<synched_messages, gm_pc, gm_it, still_pending, messages,
                   cb_topic, cb_msg, cb_todo, delivered, armedAt, calls, aborted>>
    /\ UNCHANGED <<clientVars, followerVars, writerVars, parseVars,
                   mathVars, keyVars>>

\* camera_info_topic = parameters.camera_info_topic; ... : the object exists
CtorStore ==
    /\ ctor_pc = "store"
    /\ ctor_pc' = "done"
    /\ UNCHANGED <<ctor_params, ctor_thrown, ctor_steps, follower_height, main_pc,
                   set_calls, set_arg, set_thrown>>
    /\ UNCHANGED <<syncVars, clientVars, followerVars, writerVars, parseVars,
                   mathVars, keyVars>>

\* main: catch (const std::exception & e) { std::cerr << e.what(); } ... return -1;
\* captureTrajectory is inside the try block after the construction
MainCatch ==
    /\ main_pc = "construct"
    /\ ctor_pc = "thrown"
    /\ main_pc' = "caught"
    /\ UNCHANGED <<ctor_pc, ctor_params, ctor_thrown, ctor_steps, follower_height,
                   set_calls, set_arg, set_thrown>>
    /\ UNCHANGED <<syncVars, clientVars, followerVars, writerVars, parseVars,
                   mathVars, keyVars>>

\* main: success = follower.captureTrajectory(trajectory);
MainCapture ==
    /\ main_pc = "construct"
    /\ ctor_pc = "done"
    /\ main_pc' = "capture"
    /\ UNCHANGED <<ctor_pc, ctor_params, ctor_thrown, ctor_steps, follower_height,
                   set_calls, set_arg, set_thrown>>
    /\ UNCHANGED <<syncVars, clientVars, followerVars, writerVars, parseVars,
                   mathVars, keyVars>>

\* follower.setCameraHeight(h) on a constructed follower (TEST SetHeight)
SetCameraHeight(h) ==
    /\ ctor_pc = "done"
    /\ set_calls < MaxSets
    /\ set_calls' = set_calls + 1
    /\ set_arg' = h
    /\ LET r == setCameraHeight(follower_height, h)
       IN  /\ follower_height' = r.camera_height
           /\ set_thrown' = IF r.thrown THEN "invalid_argument" ELSE "none"
    /\ UNCHANGED <<ctor_pc, ctor_params, ctor_thrown, ctor_steps, main_pc>>
    /\ UNCHANGED <<syncVars, clientVars, followerVars, writerVars, parseVars,
                   mathVars, keyVars>>

\* main / a test constructs TrajectoryFollower(parameters)
SetupInit ==
    /\ SynchronizerOff
    /\ FollowerOff
    /\ MathOff
    /\ KeyboardOff
    /\ ParseOff
    /\ dirs \in StartDirs
    /\ disk = EmptyMap
    /\ data_folder = ""
    /\ image_count = 0
    /\ w_kind = "none"
    /\ w_inst = 0
    /\ w_calls = 0
    /\ w_log = << >>
    /\ w_thrown = "none"
    /\ ctor_pc = "height"
    /\ ctor_params \in [camera_height : Heights, output_folder : Folders]
    /\ ctor_thrown = "none"
    /\ ctor_steps = [s \in {"height", "folder", "topics"} |-> 0]
    /\ follower_height = 0
    /\ main_pc = "construct"
    /\ set_calls = 0
    /\ set_arg = 0
    /\ set_thrown = "none"

SetupNext ==
    \/ CtorHeight
    \/ CtorFolder
    \/ \E ok \in BOOLEAN : CtorRegister(ok)
    \/ CtorStore
    \/ MainCatch
    \/ MainCapture
    \/ \E h \in Heights : SetCameraHeight(h)

SetupSpec == SetupInit /\ [][SetupNext]_vars

\* ------------------------------------------------------ follow_trajectory: parseFile
\* Lines are sequences of characters over the alphabet
\*   0 1 5 - . e z q space , \ "
\* (no x, i or n: hexadecimal floats, "inf" and "nan" cannot be spelled).
Digits == {"0", "1", "2", "3", "4", "5", "6", "7", "8", "9"}

DigitValue(d) ==
    CASE d = "0" -> 0 [] d = "1" -> 1 [] d = "2" -> 2 [] d = "3" -> 3
      [] d = "4" -> 4 [] d = "5" -> 5 [] d = "6" -> 6 [] d = "7" -> 7
      [] d = "8" -> 8 [] d = "9" -> 9

\* the lines a trajectory file is made of
Lines == {
    <<"1", ",", "5", ",", "0">>,
    <<"5", ",", "0", ",", "1", ",", "z">>,
    <<"1", ",", "5">>,
    <<"1", ",", "z", ",", "0">>,
    <<"1", ",", "5", ",", "1", "e", "5", "0">>,
    <<"1", "e", "-", "5", "0", ",", "5", ",", "0">>,
    <<"1", ",", "5", ",", "\\", "q">>,
    <<"1", ",", "5", ",", "0", "\\">>,
    << >>,
    <<" ", "-", "1", ",", ".", "5", ",", "5", "z">>,
    <<"\"", "1", ",", "5", "\"", ",", "0", ",", "1">>,
    <<"1", ",", "5", ",">> }

Files == UNION {[1..n -> Lines] : n \in 0..MaxLines}

\* boost::escaped_list_separator<char>::operator() over the whole line:
\* escape '\', separator ',', quote '"'; do_escape throws
\* boost::escaped_list_error on an escape at the end of the line and on an
\* escape of anything but n, the quote, the separator and the escape.
RECURSIVE escaped_list_separator(_, _, _, _, _)
escaped_list_separator(line, next, tok, bInQuote, toks) ==
    IF next > Len(line)
    THEN [tokens |-> Append(toks, tok), thrown |-> FALSE]
    ELSE IF line[next] = "\\"
    THEN IF next + 1 > Len(line)
         THEN [tokens |-> toks, thrown |-> TRUE]
         ELSE IF line[next + 1] = "n"
         THEN escaped_list_separator(line, next + 2, Append(tok, "\n"), bInQuote, toks)
         ELSE IF line[next + 1] \in {"\"", ",", "\\"}
         THEN escaped_list_separator(line, next + 2, Append(tok, line[next + 1]),
                                     bInQuote, toks)
         ELSE [tokens |-> toks, thrown |-> TRUE]
    ELSE IF line[next] = ","
    THEN IF ~bInQuote
         THEN escaped_list_separator(line, next + 1, << >>, FALSE, Append(toks, tok))
         ELSE escaped_list_separator(line, next + 1, Append(tok, ","), bInQuote, toks)
    ELSE IF line[next] = "\""
    THEN escaped_list_separator(line, next + 1, tok, ~bInQuote, toks)
    ELSE escaped_list_separator(line, next + 1, Append(tok, line[next]), bInQuote, toks)

\* boost::tokenizer<boost::escaped_list_separator<char>> tokenizer(line);
\* tokens.assign(tokenizer.begin(), tokenizer.end());  an empty line has no token
tokenizer(line) ==
    IF Len(line) = 0 THEN [tokens |-> << >>, thrown |-> FALSE]
    ELSE escaped_list_separator(line, 1, << >>, FALSE, << >>)

RECURSIVE SpacesEnd(_, _)
SpacesEnd(str, i) ==
    IF i <= Len(str) /\ str[i] = " " THEN SpacesEnd(str, i + 1) ELSE i

RECURSIVE DigitsEnd(_, _)
DigitsEnd(str, i) ==
    IF i <= Len(str) /\ str[i] \in Digits THEN DigitsEnd(str, i + 1) ELSE i

RECURSIVE NatOf(_)
NatOf(ds) ==
    IF Len(ds) = 0 THEN 0
    ELSE 10 * NatOf(SubSeq(ds, 1, Len(ds) - 1)) + DigitValue(ds[Len(ds)])

RECURSIVE StripLeadingZeros(_)
StripLeadingZeros(ds) ==
    IF Len(ds) > 0 /\ ds[1] = "0" THEN StripLeadingZeros(Tail(ds)) ELSE ds

RECURSIVE StripTrailingZeros(_)
StripTrailingZeros(ds) ==
    IF Len(ds) > 0 /\ ds[Len(ds)] = "0"
    THEN StripTrailingZeros(SubSeq(ds, 1, Len(ds) - 1)) ELSE ds

\* a.aaa < b.bbb for two digit strings read as decimal fractions
RECURSIVE DigitsLess(_, _)
DigitsLess(a, b) ==
    IF Len(b) = 0 THEN FALSE
    ELSE IF Len(a) = 0 THEN StripLeadingZeros(b) # << >>
    ELSE IF DigitValue(a[1]) # DigitValue(b[1]) THEN DigitValue(a[1]) < DigitValue(b[1])
    ELSE DigitsLess(Tail(a), Tail(b))

\* the digits of the two limits of a float, with decimal exponents 38 and -38:
\* above 3.4028235677973366e38 a float rounds to infinity, below
\* 1.17549435e-38 it is subnormal: strtof sets ERANGE for both
FltOverflow == <<"3", "4", "0", "2", "8", "2", "3", "5", "6", "7", "7", "9", "7", "3", "3", "6", "6">>
FltMinNormal == <<"1", "1", "7", "5", "4", "9", "4", "3", "5">>

\* whether strtof reports ERANGE for sig[1].sig[2..] * 10^magnitude
FloatRangeError(sig, magnitude) ==
    \/ magnitude > 38
    \/ magnitude = 38 /\ ~DigitsLess(sig, FltOverflow)
    \/ magnitude < -38
    \/ magnitude = -38 /\ DigitsLess(sig, FltMinNormal)

\* the last stage: the range check on the digits read
stof_result(neg, intLen, mant, e10) ==
    LET sig == StripLeadingZeros(mant)
        magnitude == intLen - (Len(mant) - Len(sig)) - 1 + e10
        none == [neg |-> FALSE, digits |-> << >>, exp |-> 0]
    IN  IF Len(mant) = 0 THEN [status |-> "invalid_argument", value |-> none]
        ELSE IF sig = << >>
        THEN [status |-> "ok", value |-> [neg |-> neg, digits |-> << >>, exp |-> 0]]
        ELSE IF FloatRangeError(sig, magnitude)
        THEN [status |-> "out_of_range", value |-> none]
        ELSE [status |-> "ok",
              value |-> [neg |-> neg, digits |-> StripTrailingZeros(sig),
                         exp |-> magnitude]]

\* the exponent, read from position d: e or E, a sign, at least one digit
stof_exponent(str, d) ==
    LET hasE == d <= Len(str) /\ str[d] \in {"e", "E"}
        esigned == d + 1 <= Len(str) /\ str[d + 1] \in {"-", "+"}
        f == IF esigned THEN d + 2 ELSE d + 1
        g == DigitsEnd(str, f)
    IN  IF hasE /\ g > f
        THEN (IF str[d + 1] = "-" THEN -1 ELSE 1) * NatOf(SubSeq(str, f, g - 1))
        ELSE 0

\* the digits after the point, read from position c
stof_fraction(str, neg, b, c) ==
    LET hasDot == c <= Len(str) /\ str[c] = "."
        d == IF hasDot THEN DigitsEnd(str, c + 1) ELSE c
        fracDigits == IF hasDot THEN SubSeq(str, c + 1, d - 1) ELSE << >>
    IN  stof_result(neg, c - b, SubSeq(str, b, c - 1) \o fracDigits,
                    stof_exponent(str, d))

\* the sign and the digits before the point, read from position a
stof_mantissa(str, a) ==
    LET signed == a <= Len(str) /\ str[a] \in {"-", "+"}
        b == IF signed THEN a + 1 ELSE a
    IN  stof_fraction(str, signed /\ str[a] = "-", b, DigitsEnd(str, b))

\* std::stof: strtof on the longest numeric prefix after leading white
\* space; no conversion -> std::invalid_argument, ERANGE -> std::out_of_range.
\* The value is kept as sign, significant digits and decimal exponent.
stof(str) == stof_mantissa(str, SpacesEnd(str, 1))

\* the body of the while loop for one line: what it echoes and how it ends
ParseOneLine(line) ==
    LET t == tokenizer(line)
        n == Len(t.tokens)
        warn == IF n > 3 THEN <<[kind |-> "WARNING", line |-> line]>> ELSE << >>
        err == <<[kind |-> "ERROR", line |-> line]>>
        x == stof(t.tokens[1])
        y == stof(t.tokens[2])
        yaw == stof(t.tokens[3])
    IN  IF t.thrown THEN [end |-> "escaped_list_error", cout |-> << >>]
        ELSE IF n < 3 THEN [end |-> "return", cout |-> err]
        ELSE IF x.status # "ok" \/ y.status # "ok" \/ yaw.status # "ok"
        THEN [end |-> "return", cout |-> warn \o err]
        ELSE [end |-> "push_back", cout |-> warn,
              pose |-> [x |-> x.value, y |-> y.value, yaw |-> yaw.value]]

\* std::ifstream file(filename); if (!file.is_open()) { std::cout << "ERROR..." }
ParseOpen ==
    /\ parse_pc = "open"
    /\ IF file_opens
       THEN /\ parse_pc' = "lines"
            /\ UNCHANGED <<parse_out, parse_cout>>
       ELSE /\ parse_pc' = "returned"
            /\ parse_out' = parse_trajectory
            /\ parse_cout' = Append(parse_cout, [kind |-> "ERROR", line |-> << >>])
    /\ UNCHANGED <<file_opens, file_lines, parse_i, parse_trajectory>>
    /\ UNCHANGED <<syncVars, clientVars, followerVars, writerVars, setupVars,
                   mathVars, keyVars>>

\* while (getline(file, line)) { ... }: one line
ParseLine ==
    /\ parse_pc = "lines"
    /\ parse_i < Len(file_lines)
    /\ LET r == ParseOneLine(file_lines[parse_i + 1])
       IN  /\ parse_cout' = parse_cout \o r.cout
           /\ CASE r.end = "push_back" ->
                     /\ parse_trajectory' = Append(parse_trajectory, r.pose)
                     /\ UNCHANGED <<parse_pc, parse_out>>
                [] r.end = "return" ->
                     /\ parse_pc' = "returned"
                     /\ parse_out' = << >>
                     /\ UNCHANGED parse_trajectory
                [] r.end = "escaped_list_error" ->
                     /\ parse_pc' = "terminated"
                     /\ UNCHANGED <<parse_trajectory, parse_out>>
    /\ parse_i' = parse_i + 1
    /\ UNCHANGED <<file_opens, file_lines>>
    /\ UNCHANGED <<syncVars, clientVars, followerVars, writerVars, setupVars,
                   mathVars, keyVars>>

\* getline fails at the end of the file: return trajectory;
ParseReturn ==
    /\ parse_pc = "lines"
    /\ parse_i = Len(file_lines)
    /\ parse_pc' = "returned"
    /\ parse_out' = parse_trajectory
    /\ UNCHANGED <<file_opens, file_lines, parse_i, parse_trajectory, parse_cout>>
    /\ UNCHANGED <<syncVars, clientVars, followerVars, writerVars, setupVars,
                   mathVars, keyVars>>

\* main: auto trajectory = parseFile(trajectory_file);
ParseInit ==
    /\ SynchronizerOff
    /\ FollowerOff
    /\ MathOff
    /\ KeyboardOff
    /\ WriterOff
    /\ SetupOff
    /\ file_opens \in BOOLEAN
    /\ file_lines \in Files
    /\ parse_pc = "open"
    /\ parse_i = 0
    /\ parse_trajectory = << >>
    /\ parse_out = << >>
    /\ parse_cout = << >>

ParseNext ==
    \/ ParseOpen
    \/ ParseLine
    \/ ParseReturn

ParseSpec == ParseInit /\ [][ParseNext]_vars

\* ------------------------------------------------------ follow_trajectory: main
\* the lines of the trajectory files main is run on
MainLines == {
    <<"1", ",", "5", ",", "0">>,
    <<"1", ",", "5">>,
    <<"1", ",", "5", ",", "\\", "q">> }

MainFiles == UNION {[1..n -> MainLines] : n \in 0..MaxLines}

RECURSIVE Pow10(_)
Pow10(n) == IF n <= 0 THEN 1 ELSE 10 * Pow10(n - 1)

\* the float stof returned, in units of 1e-6
FloatMicro(v) ==
    LET scale == v.exp - (Len(v.digits) - 1) + 6
        m == IF scale >= 0 THEN NatOf(v.digits) * Pow10(scale)
             ELSE NatOf(v.digits) \div Pow10(-scale)
    IN  IF v.neg THEN -m ELSE m

\* the std::vector<Pose2D> parseFile returned
Poses2D(out) ==
    [i \in 1..Len(out) |->
        [x |-> FloatMicro(out[i].x), y |-> FloatMicro(out[i].y),
         yaw |-> FloatMicro(out[i].yaw)]]

\* ground_texture_sim::TrajectoryFollower follower(parameters);  after
\* auto trajectory = parseFile(trajectory_file); returned
MainConstruct ==
    /\ main_pc = "parse"
    /\ parse_pc = "returned"
    /\ main_pc' = "construct"
    /\ ctor_pc' = "height"
    /\ UNCHANGED <<ctor_params, ctor_thrown, ctor_steps, follower_height,
                   set_calls, set_arg, set_thrown>>
    /\ UNCHANGED <<syncVars, clientVars, followerVars, writerVars, parseVars,
                   mathVars, keyVars>>

\* captureTrajectory(trajectory) is entered with the parsed poses
CaptureEnter ==
    /\ main_pc = "capture"
    /\ pc = "off"
    /\ pc' = "loop"
    /\ trajectory' = Poses2D(parse_out)
    /\ UNCHANGED <<idx, wrapped_pose, extracted_pose, pose_updated,
                   camera_info_msg, image_msg, pose_msg, result, requests,
                   replies, acks, writes, index, files, sim_pose, sim_cmd>>
    /\ UNCHANGED <<syncVars, clientVars, utilVars>>

\* if (success) { return 0; } else { std::cerr << ...; return -1; }
\* success is false unless captureTrajectory returned true
MainReturn ==
    /\ \/ main_pc = "capture" /\ pc = "done"
       \/ main_pc = "caught"
    /\ main_pc' = IF main_pc = "capture" /\ result = "true"
                  THEN "return_0" ELSE "return_-1"
    /\ UNCHANGED <<ctor_pc, ctor_params, ctor_thrown, ctor_steps, follower_height,
                   set_calls, set_arg, set_thrown>>
    /\ UNCHANGED <<syncVars, clientVars, followerVars, writerVars, parseVars,
                   mathVars, keyVars>>

\* follow_trajectory is started on a trajectory file with the default
\* parameters, next to a running simulation
MainInit ==
    /\ SynchronizerOff
    /\ FollowerOff
    /\ MathOff
    /\ KeyboardOff
    /\ WriterOff
    /\ file_opens \in BOOLEAN
    /\ file_lines \in MainFiles
    /\ parse_pc = "open"
    /\ parse_i = 0
    /\ parse_trajectory = << >>
    /\ parse_out = << >>
    /\ parse_cout = << >>
    /\ ctor_pc = "off"
    /\ ctor_params = [camera_height |-> camera_height, output_folder |-> "out"]
    /\ ctor_thrown = "none"
    /\ ctor_steps = [s \in {"height", "folder", "topics"} |-> 0]
    /\ follower_height = 0
    /\ main_pc = "parse"
    /\ set_calls = 0
    /\ set_arg = 0
    /\ set_thrown = "none"

MainNext ==
    \/ ParseOpen
    \/ ParseLine
    \/ ParseReturn
    \/ MainConstruct
    \/ CtorHeight
    \/ CtorFolder
    \/ \E ok \in BOOLEAN : CtorRegister(ok)
    \/ CtorStore
    \/ MainCatch
    \/ MainCapture
    \/ CaptureEnter
    \/ LoopHead
    \/ \E executed \in BOOLEAN, res \in BOOLEAN, data \in BOOLEAN :
            SendPose(executed, res, data)
    \/ PollCall
    \/ ArmStep
    \/ WaitLoop
    \/ GetMessagesReturn
    \/ PollCheck
    \/ WriteStep
    \/ SimApply
    \/ \E t \in FollowerTopics : \E m \in SimMessages(t) :
            messageCallback(t, m, MaxMainDeliveries)
    \/ CallbackStoreSample
    \/ CallbackClearFlag
    \/ MainReturn

MainSpec == MainInit /\ [][MainNext]_vars

\* ------------------------------------------------- transform_math under test
\* the yaws of the tests: the multiples of pi up to MaxTurns, and angles a
\* millionth, an eighth and a quarter of a turn next to them
Yaws == { n * Pi + d : n \in (-MaxTurns)..MaxTurns,
                       d \in {-1, 0, 1, Pi \div 4, Pi \div 2} }

\* the positions of the tests: 0, 1.0, -4.5 and 0, 2.5
TestPoses2D == [x : {0, 1000000, -4500000}, y : {0, 2500000}, yaw : Yaws]

\* wrapAngle(yaw)
WrapAngle ==
    /\ m_pc = "input"
    /\ m_pc' = "wrapped"
    /\ m_wrapped' = wrapAngle(m_pose2d.yaw)
    /\ UNCHANGED <<m_pose2d, m_msg, m_twice, m_quat, m_rpy, m_pose>>
    /\ UNCHANGED <<syncVars, clientVars, followerVars, writerVars, setupVars,
                   parseVars, keyVars>>

\* wrapAngle(wrapAngle(yaw))
WrapAngleAgain ==
    /\ m_pc = "wrapped"
    /\ m_pc' = "wrapped_twice"
    /\ m_twice' = wrapAngle(m_wrapped)
    /\ UNCHANGED <<m_pose2d, m_msg, m_wrapped, m_quat, m_rpy, m_pose>>
    /\ UNCHANGED <<syncVars, clientVars, followerVars, writerVars, setupVars,
                   parseVars, keyVars>>

\* auto quaternion = quaternionFromYaw(input_yaw);  or quaternionMsgFromYaw
QuaternionFromYaw ==
    /\ m_pc = "input"
    /\ m_pc' = "quaternion"
    /\ m_quat' = IF m_msg THEN quaternionMsgFromYaw(m_pose2d.yaw)
                 ELSE quaternionFromYaw(m_pose2d.yaw)
    /\ UNCHANGED <<m_pose2d, m_msg, m_wrapped, m_twice, m_rpy, m_pose>>
    /\ UNCHANGED <<syncVars, clientVars, followerVars, writerVars, setupVars,
                   parseVars, keyVars>>

\* std::tie(roll, pitch, yaw) = RPYFromQuaternion(quaternion);  or ...Msg
RPYFromQuaternionStep ==
    /\ m_pc = "quaternion"
    /\ m_pc' = "rpy"
    /\ m_rpy' = IF m_msg THEN RPYFromQuaternionMsg(m_quat)
                ELSE RPYFromQuaternion(m_quat)
    /\ UNCHANGED <<m_pose2d, m_msg, m_wrapped, m_twice, m_quat, m_pose>>
    /\ UNCHANGED <<syncVars, clientVars, followerVars, writerVars, setupVars,
                   parseVars, keyVars>>

\* auto result = poseMsgFromPose2D(pose);
PoseMsgFromPose2D ==
    /\ m_pc = "input"
    /\ m_pc' = "pose"
    /\ m_pose' = poseMsgFromPose2D(m_pose2d)
    /\ UNCHANGED <<m_pose2d, m_msg, m_wrapped, m_twice, m_quat, m_rpy>>
    /\ UNCHANGED <<syncVars, clientVars, followerVars, writerVars, setupVars,
                   parseVars, keyVars>>

MathInit ==
    /\ SynchronizerOff
    /\ FollowerOff
    /\ WriterOff
    /\ SetupOff
    /\ ParseOff
    /\ KeyboardOff
    /\ m_pc = "input"
    /\ m_pose2d \in TestPoses2D
    /\ m_msg \in BOOLEAN
    /\ m_wrapped = 0
    /\ m_twice = 0
    /\ m_quat = [qx |-> 0, qy |-> 0, qa |-> 0]
    /\ m_rpy = <<0, 0, 0>>
    /\ m_pose = [x |-> 0, y |-> 0, z |-> 0,
                 orientation |-> [qx |-> 0, qy |-> 0, qa |-> 0]]

MathNext ==
    \/ WrapAngle
    \/ WrapAngleAgain
    \/ QuaternionFromYaw
    \/ RPYFromQuaternionStep
    \/ PoseMsgFromPose2D

MathSpec == MathInit /\ [][MathNext]_vars

\* -------------------------------------------------------- KeyboardController
\* auto threshold = std::chrono::milliseconds(100);
threshold == 100
\* double linear_speed = 0.5; double angular_speed = 0.25;  in units of 0.01
linear_speed == 50
angular_speed == 25

\* the system clock when the controller is constructed, in ms since the epoch
StartTime == 1000

\* how long a caller sleeps between two calls, in ms
Sleeps == {100, 400}

PressTimes == {"back", "clockwise", "counterclockwise", "forward", "left", "right"}

\* KeyboardController(): every *_press_time is std::chrono::milliseconds::zero()
NoPresses == [member \in PressTimes |-> 0]

\* switch (command) { case 'A': left_press_time.store(current_time); ... }
registerKeypress(press_time, command, current_time) ==
    CASE command = "A" -> [press_time EXCEPT !["left"] = current_time]
      [] command = "S" -> [press_time EXCEPT !["back"] = current_time]
      [] command = "W" -> [press_time EXCEPT !["forward"] = current_time]
      [] command = "D" -> [press_time EXCEPT !["right"] = current_time]
      [] command = "Q" -> [press_time EXCEPT !["counterclockwise"] = current_time]
      [] command = "E" -> [press_time EXCEPT !["clockwise"] = current_time]
      [] OTHER -> press_time

\* (current_time - x_press_time.load()) <= threshold
Recent(current_time, press) == current_time - press <= threshold

\* the if chain of createMessage and the three set_ calls: linear z gets
\* current_x, linear y current_y, angular x current_t; current_t is changed
\* by linear_speed
createMessage_BackIgnored(current_time, press_time) ==
    LET current_y == (IF Recent(current_time, press_time["left"]) THEN linear_speed ELSE 0)
                   - (IF Recent(current_time, press_time["right"]) THEN linear_speed ELSE 0)
        current_x == (IF Recent(current_time, press_time["forward"]) THEN linear_speed ELSE 0)
        current_t == (IF Recent(current_time, press_time["clockwise"]) THEN linear_speed ELSE 0)
                   - (IF Recent(current_time, press_time["counterclockwise"])
                      THEN linear_speed ELSE 0)
    IN  [linear_x |-> 0, linear_y |-> current_y, linear_z |-> current_x,
         angular_x |-> current_t, angular_y |-> 0, angular_z |-> 0]

createMessage(current_time, press_time) ==
    LET current_y == (IF Recent(current_time, press_time["left"]) THEN linear_speed ELSE 0)
                   - (IF Recent(current_time, press_time["right"]) THEN linear_speed ELSE 0)
        current_x == (IF Recent(current_time, press_time["forward"]) THEN linear_speed ELSE 0)
                   - (IF Recent(current_time, press_time["back"]) THEN linear_speed ELSE 0)
        current_t == (IF Recent(current_time, press_time["clockwise"]) THEN linear_speed ELSE 0)
                   - (IF Recent(current_time, press_time["counterclockwise"])
                      THEN linear_speed ELSE 0)
    IN  [linear_x |-> 0, linear_y |-> current_y, linear_z |-> current_x,
         angular_x |-> current_t, angular_y |-> 0, angular_z |-> 0]

\* the int32 a keypress message carries: the codes of A, S, W, D, Q, E and X,
\* and a code above the range of char whose low byte is that of S
KeyData == {65, 83, 87, 68, 81, 69, 88, 16777299}

\* static_cast<char>(msg.data()): the low byte of the int32
CharOf(data) == data % 256

\* the character with that code, as the switch sees it; X stands for every
\* character without a case
Character(code) ==
    CASE code = 65 -> "A"
      [] code = 83 -> "S"
      [] code = 87 -> "W"
      [] code = 68 -> "D"
      [] code = 81 -> "Q"
      [] code = 69 -> "E"
      [] OTHER -> "X"

\* controller.registerKeypress(msg), from the transport thread or a test
RegisterKeypress(data) ==
    /\ Len(k_pressed) < MaxPresses
    /\ LET command == Character(CharOf(data))
       IN  /\ k_press_time' = registerKeypress(k_press_time, command, k_now)
           /\ k_pressed' = Append(k_pressed, [command |-> command, time |-> k_now])
    /\ k_data' = data
    /\ UNCHANGED <<k_now, k_msg, k_msg_time>>
    /\ UNCHANGED <<syncVars, clientVars, followerVars, writerVars, setupVars,
                   parseVars, mathVars>>

\* auto msg = controller.createMessage();
CreateMessage ==
    /\ k_msg' = createMessage(k_now, k_press_time)
    /\ k_msg_time' = k_now
    /\ UNCHANGED <<k_now, k_press_time, k_pressed, k_data>>
    /\ UNCHANGED <<syncVars, clientVars, followerVars, writerVars, setupVars,
                   parseVars, mathVars>>

\* std::this_thread::sleep_for(...), or the time between two calls
Sleep(d) ==
    /\ k_now + d <= StartTime + MaxElapsed
    /\ k_now' = k_now + d
    /\ UNCHANGED <<k_press_time, k_pressed, k_data, k_msg, k_msg_time>>
    /\ UNCHANGED <<syncVars, clientVars, followerVars, writerVars, setupVars,
                   parseVars, mathVars>>

\* ground_texture_sim::KeyboardController controller;
KeyboardInit ==
    /\ SynchronizerOff
    /\ FollowerOff
    /\ WriterOff
    /\ SetupOff
    /\ ParseOff
    /\ MathOff
    /\ k_now = StartTime
    /\ k_press_time = NoPresses
    /\ k_pressed = << >>
    /\ k_data = 0
    /\ k_msg = EmptyMap
    /\ k_msg_time = -1

KeyboardNext ==
    \/ \E data \in KeyData : RegisterKeypress(data)
    \/ CreateMessage
    \/ \E d \in Sleeps : Sleep(d)

KeyboardSpec == KeyboardInit /\ [][KeyboardNext]_vars

\* ------------------------------------------------------------------ properties
Registered == DOMAIN capture_flags

\* the sample stored for t was handed to messageCallback after this call armed t
FreshStored(t) ==
    /\ t \in DOMAIN synched_messages
    /\ t \in DOMAIN armedAt
    /\ synched_messages[t].seq > armedAt[t]

\* C1: getMessages() returns only when every registered topic has delivered a
\* sample after the arming of this call: where it returns, every capture flag is
\* false again and every topic has stored a sample delivered after the arming
\* (so a call whose topic never delivers never returns).
C1_ReturnsOnlyWhenAllCaptured ==
    gm_pc = "returned" =>
        \A t \in Registered : ~capture_flags[t] /\ FreshStored(t)

\* C2: every sample of the bundle a getMessages() call returns was delivered to
\* the callback after the arming step of that same call.
C2_BundleDeliveredAfterArming ==
    gm_pc = "returned" =>
        \A t \in DOMAIN messages :
            t \in DOMAIN armedAt /\ messages[t].seq > armedAt[t]

\* C3: the key set of the bundle getMessages() returns is the set of registered
\* topics.
C3_BundleHasEveryTopic ==
    gm_pc = "returned" => DOMAIN messages = Registered

\* C4: once a topic was armed by the running call, a cleared flag means the
\* stored sample is already the freshly delivered one: no state shows the flag
\* cleared with the sample old or absent.
C4_FlagAndSampleAsUnit ==
    \A t \in Registered :
        (gm_pc \in {"arm", "wait", "copy", "returned"}
            /\ t \in DOMAIN armedAt /\ ~capture_flags[t])
        => FreshStored(t)

\* C5: with no topic registered, a getMessages() call returns (it waits for no
\* callback) and the bundle it returns is empty.
C5_NoTopicsReturnsEmpty ==
    (gm_pc = "arm" /\ Registered = {})
        ~> (gm_pc = "returned" /\ Registered = {} /\ messages = EmptyMap)

C5_Witness ==
    gm_pc = "returned" /\ Registered = {} /\ messages = EmptyMap /\ calls > 0

\* C6: registerTopic(name) returns what the subscription returned; when that is
\* false capture_flags is unchanged, and when it is true the topic is in
\* capture_flags with its flag false and no other flag changed.
C6_RegisterTopicResult ==
    [][regs_done' # regs_done =>
        /\ reg_result' = reg_sub_ok'
        /\ ~reg_result' => capture_flags' = capture_flags
        /\ reg_result' =>
            /\ DOMAIN capture_flags' = Registered \cup {reg_name'}
            /\ capture_flags'[reg_name'] = FALSE
            /\ \A t \in Registered \ {reg_name'} :
                    capture_flags'[t] = capture_flags[t]]_vars

C6_Witness ==
    /\ regs_done = 2
    /\ ~reg_result
    /\ Registered # {}

\* the target of waypoint i as the follower uses it: yaw wrapped to [-pi, pi]
Target(i) == [trajectory[i] EXCEPT !.yaw = wrapAngle(@)]

Within(a, b) == Abs(a - b) <= Eps

Converged(pose, i) ==
    /\ Within(pose.x, Target(i).x)
    /\ Within(pose.y, Target(i).y)
    /\ Within(pose.yaw, Target(i).yaw)

\* C7: captureTrajectory is fail-fast: the requests go out in list order, a
\* request that is not accepted is the last one and makes the call return false
\* with nothing later touched, and the call returns true only with every
\* waypoint commanded, converged and written (writeData reported success).
C7_FailFast ==
    /\ Len(acks) = Len(requests)
    /\ Len(requests) <= Len(trajectory)
    /\ \A i \in 1..Len(requests) :
            /\ requests[i].x = trajectory[i].x
            /\ requests[i].y = trajectory[i].y
            /\ i < Len(requests) => acks[i]
    /\ \A i \in 1..Len(writes) : writes[i].waypoint = i /\ i <= Len(requests)
    /\ (Len(acks) > 0 /\ ~acks[Len(acks)]) =>
            /\ pc = "done"
            /\ result = "false"
            /\ Len(writes) = Len(acks) - 1
    /\ result = "false" => (Len(acks) > 0 /\ ~acks[Len(acks)])
    /\ result = "true" =>
            /\ Len(requests) = Len(trajectory)
            /\ Len(writes) = Len(trajectory)
            /\ \A i \in 1..Len(trajectory) :
                    acks[i] /\ Converged(writes[i].pose, i) /\ writes[i].ok

\* every waypoint commanded and converged, none written, and true returned
C7_Witness ==
    /\ result = "true"
    /\ Len(trajectory) = 2
    /\ \A i \in 1..Len(trajectory) :
            acks[i] /\ Converged(writes[i].pose, i) /\ ~writes[i].ok

\* the names of the output triples with the indices 0 .. n-1
FileKinds == {".png", ".txt", "_calib.txt"}

TripleNames(n) == {<<i, k>> : i \in 0..(n - 1), k \in FileKinds}

\* C8: when captureTrajectory has returned, the output holds exactly one triple
\* per waypoint that was captured, indexed in visitation order: all N when it
\* returned true, those before the failed waypoint k when it returned false,
\* and triple i holds the data handed over for waypoint i.
C8_OutputTriples ==
    result \in {"true", "false"} =>
        LET n == IF result = "true" THEN Len(trajectory) ELSE Len(requests) - 1
        IN  /\ DOMAIN files = TripleNames(n)
            /\ Len(writes) = n
            /\ \A i \in 1..n :
                    /\ writes[i].waypoint = i
                    /\ files[<<i - 1, ".png">>] = writes[i].image
                    /\ files[<<i - 1, ".txt">>] = writes[i].pose
                    /\ files[<<i - 1, "_calib.txt">>] = writes[i].camera_info

\* C9: every pose handed to the writer passed the convergence check of its
\* waypoint: it is within the tolerance of the target in x, y and yaw, the
\* target's yaw wrapped to [-pi, pi].
C9_WrittenPoseConverged ==
    \A i \in 1..Len(writes) :
        LET target == trajectory[writes[i].waypoint]
        IN  /\ Abs(writes[i].pose.x - target.x) <= Eps
            /\ Abs(writes[i].pose.y - target.y) <= Eps
            /\ Abs(writes[i].pose.yaw - wrapAngle(target.yaw)) <= Eps

\* a written pose that is within the tolerance without being equal, for a
\* waypoint whose yaw had to be wrapped
C9_Witness ==
    \E i \in 1..Len(writes) :
        /\ writes[i].pose.x # trajectory[writes[i].waypoint].x
        /\ trajectory[writes[i].waypoint].yaw # writes[i].pose.yaw

\* C10: sendPose sends one request per commanded waypoint, never a second one;
\* request i carries x and y of waypoint i, the configured camera height as z
\* and the rotation of waypoint i's yaw about z; it reports success exactly when
\* executed, result and response.data are all true, and a request that is not
\* reported successful ends the trajectory.
C10_SendPose ==
    /\ Len(replies) = Len(requests)
    /\ Len(acks) = Len(requests)
    /\ Len(requests) =
            IF pc \in {"loop", "send"} \/ (pc = "done" /\ result = "true")
            THEN idx - 1 ELSE idx
    /\ \A i \in 1..Len(requests) :
            /\ requests[i].name = camera_model_name
            /\ requests[i].x = trajectory[i].x
            /\ requests[i].y = trajectory[i].y
            /\ requests[i].z = camera_height
            /\ requests[i].orientation.qx = 0
            /\ requests[i].orientation.qy = 0
            /\ QuatYaw(requests[i].orientation) = wrapAngle(trajectory[i].yaw)
            /\ acks[i] = (replies[i].executed /\ replies[i].result /\ replies[i].data)
            /\ ~acks[i] => (i = Len(requests) /\ result = "false")

C10_Witness ==
    /\ Len(requests) = 2
    /\ acks[1]
    /\ replies[2].executed /\ replies[2].result /\ ~replies[2].data
    /\ result = "false"

\* C11: waypoints never overlap: a move request goes out only when every
\* earlier waypoint has been handed to the writer; a write happens only for the
\* waypoint whose request was the last one sent and accepted, after its
\* convergence check passed; an accepted request resets the check, and the
\* check passes only on the return of a getMessages() call.
C11_WaypointsDoNotOverlap ==
    [][/\ Len(requests') # Len(requests) =>
            /\ Len(requests') = Len(requests) + 1
            /\ Len(writes) = Len(requests)
            /\ Len(writes') = Len(writes)
            /\ acks'[Len(acks')] => ~pose_updated'
       /\ Len(writes') # Len(writes) =>
            /\ Len(writes') = Len(writes) + 1
            /\ Len(requests) = Len(writes')
            /\ Len(requests') = Len(requests)
            /\ acks[Len(requests)]
            /\ pose_updated
            /\ writes'[Len(writes')].waypoint = Len(requests)
       /\ (pose_updated' /\ ~pose_updated) =>
            /\ pc = "in_get" /\ gm_pc = "returned"
            /\ calls >= Len(requests)]_vars

\* two waypoints, each commanded, polled and handed to the writer in turn
C11_Witness ==
    /\ Len(requests) = 2
    /\ Len(writes) = 2
    /\ calls = 2
    /\ writes[2].waypoint = 2

\* the three files of index i in folder f
Triple(f, i) == {<<f, i, kind>> : kind \in FileKinds}

\* C12: the writer's index is one higher after every write attempt than before
\* it, whether the attempt succeeded or failed (an unsupported pixel encoding
\* included).
C12_IndexAlwaysAdvances ==
    \A i \in 1..Len(w_log) : w_log[i].index_after = w_log[i].index_before + 1

\* C13: the k-th write call of one writer writes its files under index k-1,
\* so the indices used by one writer are strictly increasing and no two of
\* its calls write the same file name.
C13_KthCallUsesIndexKMinus1 ==
    \A i \in 1..Len(w_log) :
        /\ w_log[i].index_before = w_log[i].k - 1
        /\ w_log[i].written # {}
        /\ \A name \in w_log[i].written : name[2] = w_log[i].k - 1
        /\ \A j \in 1..Len(w_log) :
                (j # i /\ w_log[j].inst = w_log[i].inst)
                    => w_log[j].written \cap w_log[i].written = {}

\* C14: writeData with an RGB_INT8 image returns true and leaves exactly the
\* three files index.png, index.txt and index_calib.txt in the data folder.
C14_SupportedImageWritesTriple ==
    \A i \in 1..Len(w_log) :
        (w_log[i].kind = "writer" /\ w_log[i].format = "RGB_INT8") =>
            /\ w_log[i].ok
            /\ w_log[i].written = Triple(w_log[i].folder, w_log[i].index_before)
            /\ w_log[i].written \subseteq DOMAIN disk

\* C15: every setDataFolder(path) ends without an exception with the directory
\* path in existence, whatever directories were missing before, keeps every
\* directory that existed and leaves every file as it was.
C15_SetDataFolderCreatesAll ==
    [][(data_folder' # data_folder \/ dirs' # dirs \/ w_thrown' # w_thrown) =>
            /\ w_thrown' = "none"
            /\ data_folder' \in dirs'
            /\ dirs \subseteq dirs'
            /\ disk' = disk]_vars

\* C16: output files are append-only: a file that exists, whoever wrote it
\* (an earlier call, an earlier writer instance, an earlier run), exists with
\* the same content after every step of a writer.
C16_NeverOverwrites ==
    [][\A name \in DOMAIN disk :
            name \in DOMAIN disk' /\ disk'[name] = disk[name]]_vars

\* a second writer instance has replaced a file the first one wrote
C16_Witness ==
    /\ Len(w_log) = 2
    /\ w_log[1].inst = 1 /\ w_log[2].inst = 2
    /\ w_log[1].written \cap w_log[2].written # {}

C18_ConstructorFailsWithInvalidArgument ==
    /\ ctor_pc \in {"store", "done"} =>
            /\ ctor_thrown = "none"
            /\ ctor_params.camera_height >= 0
            /\ set_calls = 0 => getCameraHeight(follower_height) = ctor_params.camera_height
            /\ getCameraHeight(follower_height) >= 0
            /\ ctor_params.output_folder \in dirs
            /\ FollowerTopics \subseteq DOMAIN capture_flags
            /\ FollowerTopics \subseteq subscribed
    /\ main_pc = "capture" => ctor_pc = "done"
    /\ (ctor_pc = "thrown" \/ ctor_thrown # "none") =>
            /\ ctor_pc = "thrown"
            /\ ctor_thrown = "invalid_argument"
            /\ main_pc # "capture"
    /\ (ctor_params.camera_height < 0 /\ ctor_pc # "height") =>
            (ctor_pc = "thrown" /\ ctor_steps["folder"] = 0 /\ ctor_steps["topics"] = 0)
    /\ w_thrown = "filesystem_error" =>
            (ctor_pc = "thrown" /\ ctor_steps["topics"] = 0)
    /\ Cardinality(DOMAIN capture_flags) < ctor_steps["topics"] =>
            (ctor_pc = "thrown"
                /\ Cardinality(DOMAIN capture_flags) = ctor_steps["topics"] - 1)
    /\ ctor_steps["height"] <= 1
    /\ ctor_steps["folder"] <= 1
    /\ ctor_steps["topics"] <= Len(CtorTopics)

\* the output folder could not be created and main caught the exception
C18_Witness ==
    /\ main_pc = "caught"
    /\ w_thrown = "filesystem_error"
    /\ ctor_thrown = "invalid_argument"
    /\ ctor_params.camera_height = 0

\* C19: setCameraHeight(h) with h >= 0 stores h, so that getCameraHeight()
\* returns h (h = 0 included); with h < 0 it throws std::invalid_argument and
\* the stored height is the one from before.
C19_SetCameraHeight ==
    [][set_calls' # set_calls =>
            IF set_arg' >= 0
            THEN /\ set_thrown' = "none"
                 /\ getCameraHeight(follower_height') = set_arg'
            ELSE /\ set_thrown' = "invalid_argument"
                 /\ getCameraHeight(follower_height') =
                        getCameraHeight(follower_height)]_vars

\* zero was stored over the default, then a negative height was refused
C19_Witness ==
    /\ set_calls = 2
    /\ ctor_params.camera_height = camera_height
    /\ set_arg < 0
    /\ set_thrown = "invalid_argument"
    /\ follower_height = 0

\* a line with at least three fields of which the first three parse
GoodLine(line) ==
    /\ ~tokenizer(line).thrown
    /\ ParseOneLine(line).end = "push_back"

\* C20: parseFile returns a result for every file: the poses of the lines in
\* line order when the file opens and every line has at least three parsable
\* fields, and the empty trajectory otherwise, whatever was parsed before.
C20_ParseFileAllOrNothing ==
    /\ parse_pc # "terminated"
    /\ parse_pc = "returned" =>
          IF file_opens /\ \A i \in 1..Len(file_lines) : GoodLine(file_lines[i])
          THEN parse_out = [i \in 1..Len(file_lines) |-> ParseOneLine(file_lines[i]).pose]
          ELSE parse_out = << >>

\* a good line was parsed, then the next one was read and parseFile ended
C20_Witness ==
    /\ parse_pc \in {"returned", "terminated"}
    /\ parse_i = 2
    /\ GoodLine(file_lines[1])
    /\ ~GoodLine(file_lines[2])

\* parseFile printed an error, or ended without returning
ReadError ==
    \/ parse_pc = "terminated"
    \/ \E i \in 1..Len(parse_cout) : parse_cout[i].kind = "ERROR"

\* C21: after an error while reading the trajectory file the program sends
\* no move request, writes no output and does not return the success status.
C21_ReadErrorHalts ==
    ReadError =>
        /\ requests = << >>
        /\ writes = << >>
        /\ files = EmptyMap
        /\ main_pc # "return_0"

\* the second line of the file was short of a field and main has returned
C21_Witness ==
    /\ ReadError
    /\ parse_i = 2
    /\ file_opens
    /\ main_pc \in {"return_0", "return_-1"}

\* C22: wrapAngle(a) lies in [-pi, pi], is congruent to a modulo 2*pi, and
\* wrapping it again gives the same angle.
C22_WrapAngleIdempotent ==
    /\ m_pc \in {"wrapped", "wrapped_twice"} =>
            /\ -Pi <= m_wrapped
            /\ m_wrapped <= Pi
            /\ (m_wrapped - m_pose2d.yaw) % TwoPi = 0
    /\ m_pc = "wrapped_twice" => m_twice = m_wrapped

\* -3*pi was wrapped twice
C22_Witness ==
    /\ m_pc = "wrapped_twice"
    /\ m_pose2d.yaw = -3 * Pi
    /\ m_twice = -Pi

C24_PoseMsgFromPose2D ==
    m_pc = "pose" =>
        /\ m_pose.x = m_pose2d.x
        /\ m_pose.y = m_pose2d.y
        /\ m_pose.z = 0
        /\ m_pose.orientation.qx = 0
        /\ m_pose.orientation.qy = 0
        /\ (m_pose.orientation.qa - m_pose2d.yaw) % TwoPi = 0

\* the pose (-4.5, 2.5) with a yaw of a quarter turn was converted
C24_Witness ==
    /\ m_pc = "pose"
    /\ m_pose2d = [x |-> -4500000, y |-> 2500000, yaw |-> Pi \div 2]
    /\ m_pose.orientation.qa = Pi \div 2

\* a step in which createMessage returned a message
Created ==
    /\ k_msg_time' = k_now
    /\ UNCHANGED <<k_now, k_press_time, k_pressed>>
    /\ <<k_msg, k_msg_time>>' # <<k_msg, k_msg_time>>

MappedKeys == {"A", "S", "W", "D", "Q", "E"}

ZeroTwist ==
    [linear_x |-> 0, linear_y |-> 0, linear_z |-> 0,
     angular_x |-> 0, angular_y |-> 0, angular_z |-> 0]

\* the age of the last registration of a key, from the calls made
Registered_(command) ==
    \E i \in 1..Len(k_pressed) : k_pressed[i].command = command

Age(command) ==
    LET last == CHOOSE i \in 1..Len(k_pressed) :
                    /\ k_pressed[i].command = command
                    /\ \A j \in (i + 1)..Len(k_pressed) : k_pressed[j].command # command
    IN  k_now - k_pressed[last].time

\* the keys registered no longer ago than `window`
KeysWithin(window) ==
    {c \in MappedKeys : Registered_(c) /\ Age(c) <= window}

\* what createMessage returns right after a single registration of the key
Contribution(command) ==
    createMessage(StartTime, registerKeypress(NoPresses, command, StartTime))

RECURSIVE TwistSum(_)
TwistSum(keys) ==
    IF keys = {} THEN ZeroTwist
    ELSE LET c == CHOOSE k \in keys : TRUE
             rest == TwistSum(keys \ {c})
         IN  [f \in DOMAIN ZeroTwist |-> Contribution(c)[f] + rest[f]]

TableTwist(command) ==
    CASE command = "A" -> [ZeroTwist EXCEPT !.linear_y = 50]
      [] command = "D" -> [ZeroTwist EXCEPT !.linear_y = -50]
      [] command = "W" -> [ZeroTwist EXCEPT !.linear_z = 50]
      [] command = "S" -> [ZeroTwist EXCEPT !.linear_z = -50]
      [] command = "E" -> [ZeroTwist EXCEPT !.angular_z = 25]
      [] command = "Q" -> [ZeroTwist EXCEPT !.angular_z = -25]

\* C26: with one mapped key registered, the message has that key's
\* component (A: linear y 0.5, D: -0.5, W: linear z 0.5, S: -0.5, E: angular
\* z 0.25, Q: -0.25) and 0 in every other component.
C26_KeyComponents ==
    [][Created =>
        \A c \in MappedKeys :
            KeysWithin(threshold) = {c} => k_msg' = TableTwist(c)]_vars

\* the message created with E alone registered just before
C26_Witness ==
    /\ k_msg_time = k_now
    /\ Len(k_pressed) = 1
    /\ k_pressed[1] = [command |-> "E", time |-> k_now]
    /\ k_msg # ZeroTwist

\* C27: a key counts in every message created up to 400 ms after its
\* registration and in none created more than 500 ms after it.
C27_PersistsHalfASecond ==
    [][Created =>
        \E keys \in SUBSET KeysWithin(500) :
            /\ KeysWithin(400) \subseteq keys
            /\ k_msg' = TwistSum(keys)]_vars

\* the message created 400 ms after the only registration, of A
C27_Witness ==
    /\ k_msg_time = k_now
    /\ Len(k_pressed) = 1
    /\ k_pressed[1] = [command |-> "A", time |-> k_now - 400]

\* C28: a getMessages() call on registered topics that has started arming
\* eventually returns (with a fair feed, and without one as well).
C28_GetMessagesEventuallyReturns ==
    (gm_pc = "arm" /\ Registered # {}) ~> (gm_pc = "returned" /\ Registered # {})

\* the call returned after every registered topic delivered a sample to it
C28_Witness ==
    /\ gm_pc = "returned"
    /\ Registered = ClientTopics
    /\ \A t \in Registered : FreshStored(t) /\ ~capture_flags[t]

\* C29: captureTrajectory never uses a missing message: every bundle it takes
\* from getMessages() holds a sample for the image, the camera-info and the
\* pose topic, so the loop never dereferences a null pose_msg and writeData is
\* never handed a null image or camera info.
C29_BundleComplete ==
    /\ (pc = "in_get" /\ gm_pc = "returned") =>
            \A t \in FollowerTopics : Get(messages, t) # NoMsg
    /\ pc # "crashed"
    /\ \A i \in 1..Len(writes) :
            writes[i].image # NoMsg /\ writes[i].camera_info # NoMsg

\* the first getMessages() of a waypoint returned before any sample arrived and
\* the loop dereferenced the null pose_msg
C29_Witness ==
    /\ pc = "crashed"
    /\ calls = 1
    /\ messages = EmptyMap
    /\ pose_msg = NoMsg

\* the follower is past its loop and about to call writeData for the waypoint
WriteDue == ~aborted /\ pc = "poll" /\ ~WhileNotUpdated(pose_updated)

\* the sample a raw pointer of the follower refers to is still the one the
\* synchronizer stores for the topic.  The bundle `messages` is a local of the
\* loop body, so past the loop the synchronizer's map is the sample's only
\* owner: a callback that stores a new sample frees the one pointed to.
StillStored(t, held) == held # NoMsg => Get(synched_messages, t) = held

\* C30: the samples handed to writeData are still the stored ones: no
\* messageCallback has replaced, and so released, the image, camera-info or
\* pose sample the follower's pointers refer to since the getMessages() call
\* that produced them.
C30_HandedSamplesStayStored ==
    WriteDue =>
        /\ StillStored(image_topic, image_msg)
        /\ StillStored(camera_info_topic, camera_info_msg)
        /\ StillStored(poses_topic, pose_msg)

\* a complete bundle was taken, the image topic was still armed when
\* getMessages() returned, and a later image replaced the stored one before
\* writeData ran
C30_Witness ==
    /\ WriteDue
    /\ image_msg # NoMsg /\ camera_info_msg # NoMsg /\ pose_msg # NoMsg
    /\ Get(synched_messages, image_topic).seq > image_msg.seq
    /\ StillStored(camera_info_topic, camera_info_msg)
    /\ \A i \in 1..Len(writes) :
            writes[i].image # NoMsg /\ writes[i].camera_info # NoMsg

\* the pose the camera has once the simulator has executed the move request of
\* waypoint i
PoseAt(i) ==
    [x |-> trajectory[i].x, y |-> trajectory[i].y, z |-> camera_height,
     yaw |-> wrapAngle(trajectory[i].yaw)]

\* C31: the image written for a waypoint was published with the camera at that
\* waypoint: no write pairs the pose of waypoint i with an image taken at an
\* earlier pose.
C31_ImageTakenAtWaypoint ==
    \A i \in 1..Len(writes) :
        writes[i].image # NoMsg => writes[i].image.pose = PoseAt(writes[i].waypoint)

\* the first waypoint was written with the image published before the
\* simulator executed the move
C31_Witness ==
    /\ Len(writes) = 1
    /\ writes[1].image # NoMsg
    /\ writes[1].image.pose = [DefaultPose EXCEPT !.z = camera_height]
    /\ writes[1].pose.x = trajectory[1].x
    /\ writes[1].pose # writes[1].image.pose

\* the feed or the calls of the model are used up
FeedExhausted == delivered = MaxDeliveries \/ calls = MaxCalls

\* C32: once the move request of a waypoint is accepted and the polling loop
\* is entered, captureTrajectory eventually returns, as long as the simulator
\* executes the move and the topics keep publishing.
C32_PollingLoopTerminates ==
    (pc = "poll" /\ ~aborted) ~> (pc = "done" \/ FeedExhausted)

\* the move of the first waypoint was accepted, and the first pass of the loop
\* ended the process with the feed and the calls not used up
C32_Witness ==
    /\ pc = "crashed"
    /\ Len(acks) = 1 /\ acks[1]
    /\ ~FeedExhausted

\* the sample held for topic t was stored after the getMessages() call of this
\* pass of the loop armed t
FromThisCall(t, held) ==
    /\ t \in DOMAIN armedAt
    /\ held.seq > armedAt[t]

\* C33: what is written for a waypoint comes from the bundle whose pose passed
\* the convergence check: the image, the camera info and the pose sample were
\* captured by the getMessages() call of that pass, and the pose written is
\* the camera model's entry of that pose sample, never a value left from an
\* earlier pass or waypoint.
C33_WrittenFromPassingBundle ==
    WriteDue =>
        /\ image_msg # NoMsg => FromThisCall(image_topic, image_msg)
        /\ camera_info_msg # NoMsg =>
                FromThisCall(camera_info_topic, camera_info_msg)
        /\ FromThisCall(poses_topic, pose_msg)
        /\ pose_msg.hasCamera
        /\ extracted_pose = pose_msg.pose

\* the pose message of the passing bundle has no entry for the camera model
\* and the pose about to be written is the default-constructed one
C33_Witness ==
    /\ WriteDue
    /\ trajectory = <<Origin>>
    /\ pose_msg # NoMsg
    /\ ~pose_msg.hasCamera
    /\ extracted_pose = DefaultPose
    /\ extracted_pose # sim_pose

\* a step of messageCallback: a message is handed to it, or one of its two
\* stores takes effect
CallbackStep == delivered' # delivered \/ cb_todo' # cb_todo

\* C34: a messageCallback for topic T changes no flag and no stored sample of
\* another topic, registers nothing, and leaves the bundle a getMessages() call
\* has returned as it is.
C34_CallbackChangesItsTopicOnly ==
    [][CallbackStep =>
        /\ DOMAIN capture_flags' = DOMAIN capture_flags
        /\ DOMAIN synched_messages' \subseteq DOMAIN synched_messages \cup {cb_topic}
        /\ \A t \in DOMAIN capture_flags \ {cb_topic} :
                capture_flags'[t] = capture_flags[t]
        /\ \A t \in DOMAIN synched_messages \ {cb_topic} :
                synched_messages'[t] = synched_messages[t]
        /\ messages' = messages]_vars

\* after getMessages() returned a bundle with one sample, a callback stored a
\* sample for a second topic: the first topic's sample is still the one in the
\* bundle, which lacks the second
C34_Witness ==
    /\ gm_pc = "returned"
    /\ Cardinality(DOMAIN messages) = 1
    /\ Cardinality(DOMAIN synched_messages) = 2
    /\ \A t \in DOMAIN messages : synched_messages[t] = messages[t]
    /\ \E t \in DOMAIN synched_messages \ DOMAIN messages :
            /\ ~capture_flags[t]
            /\ \E u \in DOMAIN messages : ~capture_flags[u]

\* C35: captureTrajectory called with an empty trajectory sends no move
\* request, never calls getMessages(), writes no file, and what it returns is
\* true.
C35_EmptyTrajectory ==
    trajectory = << >> =>
        /\ pc \in {"loop", "done"}
        /\ pc = "done" => result = "true"
        /\ requests = << >>
        /\ calls = 0 /\ gm_pc = "idle" /\ messages = EmptyMap
        /\ writes = << >> /\ index = 0 /\ files = EmptyMap

\* the call returned for the empty trajectory while the topics were publishing
C35_Witness ==
    /\ trajectory = << >>
    /\ pc = "done"
    /\ result = "true"
    /\ delivered = MaxDeliveries

\* a registerKeypress call has been made
RegisterStep == Len(k_pressed') = Len(k_pressed) + 1

\* the press time each mapped key code stands for
PressTimeOf ==
    (65 :> "left") @@ (83 :> "back") @@ (87 :> "forward") @@ (68 :> "right")
        @@ (81 :> "counterclockwise") @@ (69 :> "clockwise")

\* C36: registerKeypress with the code of A, S, W, D, Q or E sets that key's
\* press time and leaves the other five as they were; with any other key code
\* it leaves all six as they were.
C36_RegisterKeypressFrame ==
    [][RegisterStep =>
        IF k_data' \in DOMAIN PressTimeOf
        THEN k_press_time' = [k_press_time EXCEPT ![PressTimeOf[k_data']] = k_now]
        ELSE k_press_time' = k_press_time]_vars

\* the only message registered carried a code that is none of the six, and the
\* press time of S was set
C36_Witness ==
    /\ Len(k_pressed) = 1
    /\ k_data \notin DOMAIN PressTimeOf
    /\ k_data # 88
    /\ k_press_time = [NoPresses EXCEPT !["back"] = k_now]

====
